---------------------------- MODULE Spec2Model ----------------------------
(***************************************************************************)
(* Model of the SkinAdvisorAI backend (src/backend/server.py).             *)
(*                                                                         *)
(* Strings whose characters matter to the code (issue names, which are     *)
(* lower-cased, rewritten and substring-matched) are sequences of          *)
(* one-character strings; strings that are only compared for equality are  *)
(* TLA+ strings.                                                           *)
(*                                                                         *)
(* Fractional numbers (metric weights, deductions, scores before           *)
(* rounding) are exact rationals kept as integer numerators over a common  *)
(* denominator: weights and deductions in hundredths.                      *)
(***************************************************************************)
EXTENDS Integers, Sequences, FiniteSets, TLC

VARIABLES
    users,       \* db.users: user id -> [plan, scan_count]
    scans,       \* db.scans: the stored scan documents, in insertion order
    scan_cache,  \* db.scan_cache: image hash -> cached result, or NoEntry
    next_id,     \* stands for uuid4(): the next unused scan id
    pc,          \* where each in-flight POST /scan/analyze request is
    cur,         \* current_user of each request: the user document it loaded
    work,        \* the local variables of each request
    resp,        \* the response most recently sent
    analyzed,    \* history: per user, the POST /scan/analyze requests that stored a scan
    made_free,   \* history: ids of the stored scans made by a user then on the free plan
    sc_in,       \* arguments of calculate_deterministic_score (scoring specification)
    sc_out,      \* its result
    va_in,       \* argument of validate_ai_response (validation specification)
    va_out,      \* its result, or Raised
    di_in,       \* arguments of generate_diet_recommendations (diet specification)
    di_out       \* its result

vars == <<users, scans, scan_cache, next_id, pc, cur, work, resp, analyzed, made_free,
          sc_in, sc_out, va_in, va_out, di_in, di_out>>

handler_vars == <<users, scans, scan_cache, next_id, pc, cur, work, resp, analyzed, made_free>>

fn_vars == <<sc_in, sc_out, va_in, va_out, di_in, di_out>>

Min2(a, b) == IF a <= b THEN a ELSE b
Max2(a, b) == IF a >= b THEN a ELSE b
SetMin(S) == CHOOSE x \in S : \A y \in S : x <= y

(***************************************************************************)
(* String helpers: str.lower(), str.replace(), the `in` operator.          *)
(***************************************************************************)
UpperChars == <<"A", "B", "C", "D", "E", "F", "G", "H", "I", "J", "K", "L", "M",
                "N", "O", "P", "Q", "R", "S", "T", "U", "V", "W", "X", "Y", "Z">>
LowerChars == <<"a", "b", "c", "d", "e", "f", "g", "h", "i", "j", "k", "l", "m",
                "n", "o", "p", "q", "r", "s", "t", "u", "v", "w", "x", "y", "z">>

LowerChar(c) ==
    IF \E i \in 1..Len(UpperChars) : UpperChars[i] = c
    THEN LowerChars[CHOOSE i \in 1..Len(UpperChars) : UpperChars[i] = c]
    ELSE c

\* s.lower()
Lower(s) == [i \in 1..Len(s) |-> LowerChar(s[i])]

\* s.replace(old, new) for one-character old and new
ReplaceChar(s, old, new) == [i \in 1..Len(s) |-> IF s[i] = old THEN new ELSE s[i]]

\* k in s  (substring test; the empty string is in every string)
Contains(k, s) ==
    \E i \in 0..(Len(s) - Len(k)) : SubSeq(s, i + 1, i + Len(k)) = k

(***************************************************************************)
(* Deterministic scoring: ISSUE_WEIGHTS, SCORE_LABELS, get_score_label,    *)
(* calculate_deterministic_score.                                          *)
(***************************************************************************)
\* The table in its source (dict insertion) order.
ISSUE_WEIGHTS ==
    << [key |-> <<"a", "c", "n", "e">>, w |-> 6],                                 \* acne
       [key |-> <<"p", "o", "r", "e", "s">>, w |-> 4],                            \* pores
       [key |-> <<"l", "a", "r", "g", "e", "_", "p", "o", "r", "e", "s">>, w |-> 4],   \* large_pores
       [key |-> <<"u", "n", "e", "v", "e", "n", "_", "t", "o", "n", "e">>, w |-> 3],   \* uneven_tone
       [key |-> <<"u", "n", "e", "v", "e", "n", "_", "s", "k", "i", "n", "_", "t", "o", "n", "e">>, w |-> 3],   \* uneven_skin_tone
       [key |-> <<"r", "e", "d", "n", "e", "s", "s">>, w |-> 4],                  \* redness
       [key |-> <<"r", "o", "s", "a", "c", "e", "a">>, w |-> 5],                  \* rosacea
       [key |-> <<"d", "e", "h", "y", "d", "r", "a", "t", "i", "o", "n">>, w |-> 5],   \* dehydration
       [key |-> <<"d", "r", "y", "n", "e", "s", "s">>, w |-> 3],                  \* dryness
       [key |-> <<"o", "i", "l", "i", "n", "e", "s", "s">>, w |-> 3],             \* oiliness
       [key |-> <<"d", "a", "r", "k", "_", "s", "p", "o", "t", "s">>, w |-> 3],   \* dark_spots
       [key |-> <<"h", "y", "p", "e", "r", "p", "i", "g", "m", "e", "n", "t", "a", "t", "i", "o", "n">>, w |-> 3],   \* hyperpigmentation
       [key |-> <<"w", "r", "i", "n", "k", "l", "e", "s">>, w |-> 4],             \* wrinkles
       [key |-> <<"f", "i", "n", "e", "_", "l", "i", "n", "e", "s">>, w |-> 2],   \* fine_lines
       [key |-> <<"t", "e", "x", "t", "u", "r", "e">>, w |-> 3],                  \* texture
       [key |-> <<"b", "l", "a", "c", "k", "h", "e", "a", "d", "s">>, w |-> 3],   \* blackheads
       [key |-> <<"w", "h", "i", "t", "e", "h", "e", "a", "d", "s">>, w |-> 3],   \* whiteheads
       [key |-> <<"s", "u", "n", "_", "d", "a", "m", "a", "g", "e">>, w |-> 4],   \* sun_damage
       [key |-> <<"d", "a", "r", "k", "_", "c", "i", "r", "c", "l", "e", "s">>, w |-> 2],   \* dark_circles
       [key |-> <<"s", "e", "n", "s", "i", "t", "i", "v", "i", "t", "y">>, w |-> 3],   \* sensitivity
       [key |-> <<"i", "n", "f", "l", "a", "m", "m", "a", "t", "i", "o", "n">>, w |-> 4] >>   \* inflammation

\* The bands in their source order.
SCORE_LABELS ==
    << [lo |-> 0,  hi |-> 39,  label |-> "needs_care"],
       [lo |-> 40, hi |-> 59,  label |-> "needs_attention"],
       [lo |-> 60, hi |-> 74,  label |-> "average"],
       [lo |-> 75, hi |-> 89,  label |-> "good"],
       [lo |-> 90, hi |-> 100, label |-> "excellent"] >>

\* get_score_label that leaves the lower bound of each band out
get_score_label_OpenBands(score) ==
    LET hits == {i \in 1..Len(SCORE_LABELS) :
                    SCORE_LABELS[i].lo < score /\ score <= SCORE_LABELS[i].hi}
    IN  IF hits = {} THEN "unknown" ELSE SCORE_LABELS[SetMin(hits)].label

get_score_label(score) ==
    LET hits == {i \in 1..Len(SCORE_LABELS) :
                    SCORE_LABELS[i].lo <= score /\ score <= SCORE_LABELS[i].hi}
    IN  IF hits = {} THEN "unknown" ELSE SCORE_LABELS[SetMin(hits)].label

\* metric_weights, in hundredths, in source order
MetricNames == <<"tone_uniformity", "texture_smoothness", "hydration_appearance",
                 "pore_visibility", "redness_level">>
metric_weights ==
    [m \in {MetricNames[i] : i \in 1..Len(MetricNames)} |->
        CASE m = "tone_uniformity"      -> 25
          [] m = "texture_smoothness"   -> 25
          [] m = "hydration_appearance" -> 20
          [] m = "pore_visibility"      -> 15
          [] m = "redness_level"        -> 15]

\* skin_metrics is a function from the metric names present to their scores;
\* the empty function stands for None and for {} alike (both are falsy).
NoMetrics == [m \in {} |-> 0]

\* base_score as the fraction num / den (lines 200-234)
DefaultBase == 75
BaseScore(skin_metrics) ==
    LET RECURSIVE Acc(_)
        \* <<metrics_score, total_weight>> after the first i metric names
        Acc(i) ==
            IF i = 0 THEN <<0, 0>>
            ELSE LET prev == Acc(i - 1)
                     m    == MetricNames[i]
                 IN  IF m \in DOMAIN skin_metrics
                     THEN <<prev[1] + skin_metrics[m] * metric_weights[m],
                            prev[2] + metric_weights[m]>>
                     ELSE prev
        tot == Acc(Len(MetricNames))
    IN  IF DOMAIN skin_metrics # {} /\ tot[2] > 0
        THEN [num |-> tot[1], den |-> tot[2]]
        ELSE [num |-> DefaultBase, den |-> 1]

\* issue_name = issue.get('name', '').lower().replace(' ', '_').replace('-', '_')
NormalizedIssueName(name) == ReplaceChar(ReplaceChar(Lower(name), " ", "_"), "-", "_")

\* severity = min(10, max(0, issue.get('severity', 0)))
ClampedSeverity(issue) == Min2(10, Max2(0, issue.severity))

\* key in issue_name or issue_name in key
KeyMatches(key, issue_name) == Contains(key, issue_name) \/ Contains(issue_name, key)

DefaultWeight == 3
\* IssueWeight in which the last matching key wins
IssueWeight_LastMatch(issue_name) ==
    LET hits == {i \in 1..Len(ISSUE_WEIGHTS) : KeyMatches(ISSUE_WEIGHTS[i].key, issue_name)}
    IN  IF hits = {} THEN DefaultWeight
        ELSE ISSUE_WEIGHTS[CHOOSE i \in hits : \A j \in hits : j <= i].w

\* the weight loop of lines 262-267: the first matching key wins
IssueWeight(issue_name) ==
    LET hits == {i \in 1..Len(ISSUE_WEIGHTS) : KeyMatches(ISSUE_WEIGHTS[i].key, issue_name)}
    IN  IF hits = {} THEN DefaultWeight ELSE ISSUE_WEIGHTS[SetMin(hits)].w

\* deduction = severity * weight * 0.12, in hundredths
Deduction100(issue) ==
    ClampedSeverity(issue) * IssueWeight(NormalizedIssueName(issue.name)) * 12

RECURSIVE TotalDeduction100(_)
TotalDeduction100(issues) ==
    IF issues = <<>> THEN 0
    ELSE Deduction100(Head(issues)) + TotalDeduction100(Tail(issues))

RECURSIVE MaxSeverity(_)
MaxSeverity(issues) ==
    IF issues = <<>> THEN 0
    ELSE Max2(ClampedSeverity(Head(issues)), MaxSeverity(Tail(issues)))

CriticalKeys ==
    { <<"a", "c", "n", "e">>, <<"p", "o", "r", "e", "s">>,
      <<"u", "n", "e", "v", "e", "n", "_", "t", "o", "n", "e">>,
      <<"r", "e", "d", "n", "e", "s", "s">> }

\* has_critical_issue = any(sev >= 3 for sev in critical_issues.values())
HasCriticalIssue(issues) ==
    \E k \in CriticalKeys : \E i \in 1..Len(issues) :
        /\ KeyMatches(k, NormalizedIssueName(issues[i].name))
        /\ ClampedSeverity(issues[i]) >= 3

\* round(): to the nearest integer, ties to the even one
RoundHalfEven(num, den) ==
    LET q == num \div den
        r == num % den
    IN  IF 2 * r < den THEN q
        ELSE IF 2 * r > den THEN q + 1
        ELSE IF q % 2 = 0 THEN q ELSE q + 1

\* HardCaps without rule 3 (the cap at 74 for a severity of 7 or more)
HardCaps_NoRule3(p, den, issues) ==
    LET max_severity == MaxSeverity(issues)
        ded100       == TotalDeduction100(issues)
        p1 == IF HasCriticalIssue(issues) THEN Min2(p, 84 * den) ELSE p
        p2 == IF max_severity >= 5 THEN Min2(p1, 79 * den) ELSE p1
        can_be_elite == (max_severity <= 1) /\ (ded100 < 500)
        p4 == IF ~can_be_elite /\ p2 >= 85 * den THEN Min2(p2, 84 * den) ELSE p2
        p5 == IF p4 >= 90 * den /\ ~(max_severity = 0 /\ ded100 < 200)
              THEN Min2(p4, 89 * den) ELSE p4
    IN  p5

\* HardCaps without rule 4 (the cap at 84 for skin that is not elite)
HardCaps_NoRule4(p, den, issues) ==
    LET max_severity == MaxSeverity(issues)
        ded100       == TotalDeduction100(issues)
        p1 == IF HasCriticalIssue(issues) THEN Min2(p, 84 * den) ELSE p
        p2 == IF max_severity >= 5 THEN Min2(p1, 79 * den) ELSE p1
        p3 == IF max_severity >= 7 THEN Min2(p2, 74 * den) ELSE p2
        p5 == IF p3 >= 90 * den /\ ~(max_severity = 0 /\ ded100 < 200)
              THEN Min2(p3, 89 * den) ELSE p3
    IN  p5

\* The hard cap rules of lines 286-308 on preliminary_score = p / den.
HardCaps(p, den, issues) ==
    LET max_severity == MaxSeverity(issues)
        ded100       == TotalDeduction100(issues)
        p1 == IF HasCriticalIssue(issues) THEN Min2(p, 84 * den) ELSE p
        p2 == IF max_severity >= 5 THEN Min2(p1, 79 * den) ELSE p1
        p3 == IF max_severity >= 7 THEN Min2(p2, 74 * den) ELSE p2
        can_be_elite == (max_severity <= 1) /\ (ded100 < 500)
        p4 == IF ~can_be_elite /\ p3 >= 85 * den THEN Min2(p3, 84 * den) ELSE p3
        p5 == IF p4 >= 90 * den /\ ~(max_severity = 0 /\ ded100 < 200)
              THEN Min2(p4, 89 * den) ELSE p4
    IN  p5

calculate_deterministic_score(issues, skin_metrics) ==
    LET base  == BaseScore(skin_metrics)
        den   == 100 * base.den
        \* preliminary_score = base_score - total_deduction, over den
        prelim == 100 * base.num - TotalDeduction100(issues) * base.den
        capped == HardCaps(prelim, den, issues)
        final_score == Max2(0, Min2(100, RoundHalfEven(capped, den)))
    IN  [score |-> final_score,
         label |-> get_score_label(final_score),
         total_deduction100 |-> TotalDeduction100(issues),
         calculation_method |->
             IF DOMAIN skin_metrics # {} THEN "metrics_based" ELSE "issue_based"]

(***************************************************************************)
(* The raw report of the vision model: JSON values.  A number is kept in   *)
(* hundredths (JNum(750) is 7.5); a dict is a function from the keys       *)
(* present to their values; names and skin types are character sequences,  *)
(* free text (descriptions, explanations, priorities) is a TLA+ string.    *)
(***************************************************************************)
JStr(s)  == [t |-> "str", v |-> s]
JNum(h)  == [t |-> "num", v |-> h]
JNull    == [t |-> "null"]
JList(l) == [t |-> "list", v |-> l]
JDict(d) == [t |-> "dict", v |-> d]

\* d.get(k, default)
Get(d, k, default) == IF k \in DOMAIN d THEN d[k] ELSE default

\* bool(j)
Truthy(j) ==
    CASE j.t = "str"  -> Len(j.v) > 0
      [] j.t = "num"  -> j.v # 0
      [] j.t = "null" -> FALSE
      [] j.t = "list" -> Len(j.v) > 0
      [] j.t = "dict" -> DOMAIN j.v # {}

\* isinstance(j, (int, float))
IsNumber(j) == j.t = "num"

Digits == <<"0", "1", "2", "3", "4", "5", "6", "7", "8", "9">>
RECURSIVE DecStr(_)
DecStr(n) == IF n < 10 THEN <<Digits[n + 1]>> ELSE DecStr(n \div 10) \o <<Digits[(n % 10) + 1]>>

\* str(j) of a string or of a non-negative whole number
PyStr(j) == IF j.t = "num" THEN DecStr(j.v \div 100) ELSE j.v

(***************************************************************************)
(* validate_ai_response and get_fallback_analysis.                         *)
(* An issue is [name, severity, confidence, description, why_this_result,  *)
(* priority], a strength [name, description, confidence]; confidences are  *)
(* in hundredths.  A validated metric is represented by its score.         *)
(***************************************************************************)
sOily        == <<"o", "i", "l", "y">>
sDry         == <<"d", "r", "y">>
sCombination == <<"c", "o", "m", "b", "i", "n", "a", "t", "i", "o", "n">>
sNormal      == <<"n", "o", "r", "m", "a", "l">>
sSensitive   == <<"s", "e", "n", "s", "i", "t", "i", "v", "e">>
valid_skin_types == {sOily, sDry, sCombination, sNormal, sSensitive}

sHydrationOptimization == <<"H", "y", "d", "r", "a", "t", "i", "o", "n", " ", "o", "p", "t", "i", "m", "i", "z", "a", "t", "i", "o", "n">>
sPoreRefinement        == <<"P", "o", "r", "e", " ", "r", "e", "f", "i", "n", "e", "m", "e", "n", "t">>
sSkinBarrierHealth     == <<"S", "k", "i", "n", " ", "b", "a", "r", "r", "i", "e", "r", " ", "h", "e", "a", "l", "t", "h">>
sAntiAgingPrevention   == <<"A", "n", "t", "i", "-", "a", "g", "i", "n", "g", " ", "p", "r", "e", "v", "e", "n", "t", "i", "o", "n">>
sToneUniformity        == <<"T", "o", "n", "e", " ", "u", "n", "i", "f", "o", "r", "m", "i", "t", "y">>

UNIVERSAL_OPTIMIZATION_ISSUES ==
    << [name |-> sHydrationOptimization, severity |-> 2, confidence |-> 90,
        description |-> "Skin hydration can always be improved for better elasticity and glow"],
       [name |-> sPoreRefinement, severity |-> 2, confidence |-> 85,
        description |-> "Pore appearance can be minimized with proper care"],
       [name |-> sSkinBarrierHealth, severity |-> 1, confidence |-> 90,
        description |-> "Maintaining skin barrier integrity prevents future issues"],
       [name |-> sAntiAgingPrevention, severity |-> 1, confidence |-> 95,
        description |-> "Preventive care helps maintain youthful skin longer"],
       [name |-> sToneUniformity, severity |-> 2, confidence |-> 80,
        description |-> "Minor tone variations can be improved with consistent care"] >>

default_metrics ==
    [m \in DOMAIN metric_weights |->
        CASE m = "tone_uniformity"      -> 70
          [] m = "texture_smoothness"   -> 72
          [] m = "hydration_appearance" -> 68
          [] m = "pore_visibility"      -> 65
          [] m = "redness_level"        -> 75]

sNaturalSkinResilience == <<"N", "a", "t", "u", "r", "a", "l", " ", "s", "k", "i", "n", " ", "r", "e", "s", "i", "l", "i", "e", "n", "c", "e">>
sEvenFacialStructure   == <<"E", "v", "e", "n", " ", "f", "a", "c", "i", "a", "l", " ", "s", "t", "r", "u", "c", "t", "u", "r", "e">>

default_strengths ==
    << [name |-> sNaturalSkinResilience,
        description |-> "Your skin shows good natural recovery ability", confidence |-> 80],
       [name |-> sEvenFacialStructure,
        description |-> "Good overall facial balance", confidence |-> 75] >>

\* str(j) where a name is expected: a string, or a non-negative whole number
NameStr(j) == IF j.t = "num" THEN DecStr(j.v \div 100) ELSE j.v

\* str(j) where free text is expected: a string, or None
TextStr(j) == IF j.t = "str" THEN j.v ELSE "None"

\* result.get('skin_type', 'normal').lower() raises on a value that is not a string
SkinTypeRaises(result) == Get(result, "skin_type", JStr(sNormal)).t # "str"

ValidatedSkinType(result) ==
    LET skin_type == Lower(Get(result, "skin_type", JStr(sNormal)).v)
    IN  IF skin_type \in valid_skin_types THEN skin_type ELSE sCombination

ValidatedSkinTypeConfidence(result) ==
    LET c == Get(result, "skin_type_confidence", JNum(80))
    IN  Max2(0, Min2(100, IF IsNumber(c) THEN c.v ELSE 80))

\* `metric_name in raw_metrics` raises on None and on a number.  A string or
\* a list value is taken not to contain a metric name, and gives the defaults.
MetricsRaise(result) == Get(result, "skin_metrics", JDict(<<>>)).t \in {"null", "num"}

ValidatedMetrics(result) ==
    LET raw_metrics == Get(result, "skin_metrics", JDict(<<>>))
    IN  [m \in DOMAIN default_metrics |->
            IF raw_metrics.t = "dict" /\ m \in DOMAIN raw_metrics.v /\ raw_metrics.v[m].t = "dict"
            THEN LET s0    == Get(raw_metrics.v[m].v, "score", JNum(100 * default_metrics[m]))
                     score == IF IsNumber(s0) THEN s0.v ELSE 100 * default_metrics[m]
                 IN  Max2(0, Min2(10000, score)) \div 100
            ELSE default_metrics[m]]

\* Appends catalog[i..] entries whose lower-cased name is not in existing
\* until the list has `target` entries (the padding loops with break).
RECURSIVE PadFrom(_, _, _, _, _)
PadFrom(list, catalog, i, existing, target) ==
    IF i > Len(catalog) THEN list
    ELSE IF Lower(catalog[i].name) \notin existing
         THEN LET longer == Append(list, catalog[i])
              IN  IF Len(longer) >= target THEN longer
                  ELSE PadFrom(longer, catalog, i + 1, existing, target)
         ELSE PadFrom(list, catalog, i + 1, existing, target)

KeptStrength(strength) ==
    strength.t = "dict" /\ Truthy(Get(strength.v, "name", JNull))

ValidatedStrength(strength) ==
    LET c0         == Get(strength.v, "confidence", JNum(75))
        confidence == IF IsNumber(c0) THEN c0.v ELSE 75
    IN  [name        |-> NameStr(Get(strength.v, "name", JStr(<<>>))),
         description |-> TextStr(Get(strength.v, "description", JStr("Positive aspect detected"))),
         confidence  |-> Max2(50, Min2(100, confidence))]

\* ValidatedStrengths without the cut to 4 entries
ValidatedStrengths_NoCut(result) ==
    LET raw_strengths == Get(result, "strengths", JList(<<>>))
        kept   == IF raw_strengths.t = "list" THEN SelectSeq(raw_strengths.v, KeptStrength) ELSE <<>>
        validated_strengths == [i \in 1..Len(kept) |-> ValidatedStrength(kept[i])]
        existing_names == {Lower(validated_strengths[i].name) : i \in 1..Len(validated_strengths)}
        padded == IF Len(validated_strengths) < 2
                  THEN PadFrom(validated_strengths, default_strengths, 1, existing_names, 2)
                  ELSE validated_strengths
    IN  padded

ValidatedStrengths(result) ==
    LET raw_strengths == Get(result, "strengths", JList(<<>>))
        kept   == IF raw_strengths.t = "list" THEN SelectSeq(raw_strengths.v, KeptStrength) ELSE <<>>
        validated_strengths == [i \in 1..Len(kept) |-> ValidatedStrength(kept[i])]
        existing_names == {Lower(validated_strengths[i].name) : i \in 1..Len(validated_strengths)}
        padded == IF Len(validated_strengths) < 2
                  THEN PadFrom(validated_strengths, default_strengths, 1, existing_names, 2)
                  ELSE validated_strengths
    IN  SubSeq(padded, 1, Min2(4, Len(padded)))

\* `for issue in raw_issues` raises on None and on a number; iterating a
\* string or a dict yields strings, which are skipped.
IssuesRaise(result) == Get(result, "issues", JList(<<>>)).t \in {"null", "num"}

KeptIssue(issue) ==
    issue.t = "dict" /\ Truthy(Get(issue.v, "name", JStr(<<>>)))

DefaultWhy == "Detected based on visible skin characteristics in the analyzed area"

\* ValidatedIssue without the clamps of severity and confidence
ValidatedIssue_NoClamp(issue) ==
    LET s0 == Get(issue.v, "severity", JNum(100))
        c0 == Get(issue.v, "confidence", JNum(70))
        p0 == Get(issue.v, "priority", JStr("secondary"))
        w0 == Get(issue.v, "why_this_result", JStr(""))
    IN  [name        |-> NameStr(Get(issue.v, "name", JStr(<<>>))),
         \* int(max(1, min(10, severity)))
         severity    |-> (IF IsNumber(s0) THEN s0.v ELSE 100) \div 100,
         confidence  |-> (IF IsNumber(c0) THEN c0.v ELSE 70),
         description |-> TextStr(Get(issue.v, "description", JStr("<name> detected"))),
         why_this_result |-> IF w0.t # "str" \/ Len(w0.v) < 10 THEN DefaultWhy ELSE w0.v,
         priority    |-> IF p0.t = "str" /\ p0.v \in {"primary", "secondary", "minor"}
                         THEN p0.v ELSE "secondary"]

ValidatedIssue(issue) ==
    LET s0 == Get(issue.v, "severity", JNum(100))
        c0 == Get(issue.v, "confidence", JNum(70))
        p0 == Get(issue.v, "priority", JStr("secondary"))
        w0 == Get(issue.v, "why_this_result", JStr(""))
    IN  [name        |-> NameStr(Get(issue.v, "name", JStr(<<>>))),
         \* int(max(1, min(10, severity)))
         severity    |-> Max2(100, Min2(1000, IF IsNumber(s0) THEN s0.v ELSE 100)) \div 100,
         confidence  |-> Max2(50, Min2(100, IF IsNumber(c0) THEN c0.v ELSE 70)),
         description |-> TextStr(Get(issue.v, "description", JStr("<name> detected"))),
         why_this_result |-> IF w0.t # "str" \/ Len(w0.v) < 10 THEN DefaultWhy ELSE w0.v,
         priority    |-> IF p0.t = "str" /\ p0.v \in {"primary", "secondary", "minor"}
                         THEN p0.v ELSE "secondary"]

\* Only include issues with confidence >= 0.5
ConfidentEnough(validated) == validated.confidence >= 50

MinIssues == 3

UniversalIssue(opt_issue) ==
    [name        |-> opt_issue.name,
     severity    |-> opt_issue.severity,
     confidence  |-> opt_issue.confidence,
     description |-> opt_issue.description,
     why_this_result |-> "Based on general skin health optimization principles",
     priority    |-> "minor"]

priority_order(p) == CASE p = "primary" -> 0 [] p = "secondary" -> 1 [] p = "minor" -> 2

\* SortKeyLE for the sort key -severity alone
SortKeyLE_SeverityOnly(a, b) == a.severity >= b.severity

\* key(a) <= key(b) for the sort key (-severity, priority_order)
SortKeyLE(a, b) ==
    \/ a.severity > b.severity
    \/ a.severity = b.severity /\ priority_order(a.priority) <= priority_order(b.priority)

\* list.sort(key=...): stable
RECURSIVE SortIssues(_)
SortIssues(issues) ==
    IF Len(issues) = 0 THEN <<>>
    ELSE LET sorted == SortIssues(SubSeq(issues, 1, Len(issues) - 1))
             x      == issues[Len(issues)]
             n      == Cardinality({i \in 1..Len(sorted) : SortKeyLE(sorted[i], x)})
         IN  SubSeq(sorted, 1, n) \o <<x>> \o SubSeq(sorted, n + 1, Len(sorted))

\* ValidatedIssues without the padding from the catalog
ValidatedIssues_NoPadding(result) ==
    LET raw_issues == Get(result, "issues", JList(<<>>))
        kept == IF raw_issues.t = "list" THEN SelectSeq(raw_issues.v, KeptIssue) ELSE <<>>
        validated_issues ==
            SelectSeq([i \in 1..Len(kept) |-> ValidatedIssue(kept[i])], ConfidentEnough)
        existing_names == {Lower(validated_issues[i].name) : i \in 1..Len(validated_issues)}
        catalog == [i \in 1..Len(UNIVERSAL_OPTIMIZATION_ISSUES) |->
                        UniversalIssue(UNIVERSAL_OPTIMIZATION_ISSUES[i])]
        padded == IF Len(validated_issues) < MinIssues
                  THEN PadFrom(validated_issues, catalog, 1, existing_names, MinIssues)
                  ELSE validated_issues
    IN  SortIssues(validated_issues)

ValidatedIssues(result) ==
    LET raw_issues == Get(result, "issues", JList(<<>>))
        kept == IF raw_issues.t = "list" THEN SelectSeq(raw_issues.v, KeptIssue) ELSE <<>>
        validated_issues ==
            SelectSeq([i \in 1..Len(kept) |-> ValidatedIssue(kept[i])], ConfidentEnough)
        existing_names == {Lower(validated_issues[i].name) : i \in 1..Len(validated_issues)}
        catalog == [i \in 1..Len(UNIVERSAL_OPTIMIZATION_ISSUES) |->
                        UniversalIssue(UNIVERSAL_OPTIMIZATION_ISSUES[i])]
        padded == IF Len(validated_issues) < MinIssues
                  THEN PadFrom(validated_issues, catalog, 1, existing_names, MinIssues)
                  ELSE validated_issues
    IN  SortIssues(padded)

\* int(max(1, min(10, <severity>))) raises on a severity that is not a number
PrimaryConcernRaises(result) ==
    LET raw_primary == Get(result, "primary_concern", JDict(<<>>))
    IN  /\ raw_primary.t = "dict"
        /\ Truthy(Get(raw_primary.v, "name", JNull))
        /\ "severity" \in DOMAIN raw_primary.v
        /\ ~IsNumber(raw_primary.v["severity"])

sGeneralSkinOptimization == <<"G", "e", "n", "e", "r", "a", "l", " ", "s", "k", "i", "n", " ", "o", "p", "t", "i", "m", "i", "z", "a", "t", "i", "o", "n">>

\* ValidatedPrimaryConcern that never takes the report's own primary_concern
ValidatedPrimaryConcern_NoOverride(result, validated_issues) ==
    IF Len(validated_issues) > 0
    THEN [name            |-> validated_issues[1].name,
          severity        |-> validated_issues[1].severity,
          why_this_result |-> validated_issues[1].why_this_result]
    ELSE [name            |-> sGeneralSkinOptimization,
          severity        |-> 2,
          why_this_result |-> "Your skin is generally healthy but can benefit from consistent care"]

ValidatedPrimaryConcern(result, validated_issues) ==
    LET raw_primary == Get(result, "primary_concern", JDict(<<>>))
        top == IF Len(validated_issues) > 0
               THEN [name            |-> validated_issues[1].name,
                     severity        |-> validated_issues[1].severity,
                     why_this_result |-> validated_issues[1].why_this_result]
               ELSE [name            |-> sGeneralSkinOptimization,
                     severity        |-> 2,
                     why_this_result |-> "Your skin is generally healthy but can benefit from consistent care"]
    IN  IF raw_primary.t = "dict" /\ Truthy(Get(raw_primary.v, "name", JNull))
        THEN [name     |-> NameStr(raw_primary.v["name"]),
              severity |-> Max2(100, Min2(1000,
                               Get(raw_primary.v, "severity", JNum(100 * top.severity)).v)) \div 100,
              why_this_result |->
                  TextStr(Get(raw_primary.v, "why_this_result", JStr(top.why_this_result)))]
        ELSE top

default_recommendations ==
    << "Maintain a consistent skincare routine",
       "Use sunscreen daily (SPF 30+)",
       "Stay hydrated - aim for 8 glasses of water daily" >>

ValidatedRecommendations(result) ==
    LET raw  == Get(result, "recommendations", JList(<<>>))
        list == IF raw.t = "list" THEN SelectSeq(raw.v, Truthy) ELSE <<>>
        strs == [i \in 1..Min2(5, Len(list)) |-> TextStr(list[i])]
    IN  IF Len(strs) = 0 THEN default_recommendations ELSE strs

\* validate_ai_response raises (and analyze_skin_with_ai falls back)
ValidateRaises(result) ==
    \/ SkinTypeRaises(result)
    \/ MetricsRaise(result)
    \/ IssuesRaise(result)
    \/ PrimaryConcernRaises(result)

\* The value returned when validate_ai_response does not raise
validate_ai_response(result) ==
    LET validated_issues == ValidatedIssues(result)
    IN  [skin_type            |-> ValidatedSkinType(result),
         skin_type_confidence |-> ValidatedSkinTypeConfidence(result),
         skin_metrics         |-> ValidatedMetrics(result),
         strengths            |-> ValidatedStrengths(result),
         issues               |-> validated_issues,
         primary_concern      |-> ValidatedPrimaryConcern(result, validated_issues),
         recommendations      |-> ValidatedRecommendations(result)]

get_fallback_analysis ==
    [skin_type            |-> sCombination,
     skin_type_confidence |-> 60,
     skin_metrics         |-> default_metrics,
     strengths            |-> default_strengths,
     issues |->
        << [name |-> sHydrationOptimization, severity |-> 2, confidence |-> 90,
            description |-> "Skin hydration can always be improved for better elasticity and glow",
            why_this_result |-> "Based on general skin health optimization principles",
            priority |-> "secondary"],
           [name |-> sPoreRefinement, severity |-> 2, confidence |-> 85,
            description |-> "Pore appearance can be minimized with proper care",
            why_this_result |-> "Standard recommendation for most skin types",
            priority |-> "minor"],
           [name |-> sSkinBarrierHealth, severity |-> 1, confidence |-> 90,
            description |-> "Maintaining skin barrier integrity prevents future issues",
            why_this_result |-> "Preventive care recommendation",
            priority |-> "minor"] >>,
     primary_concern |->
        [name |-> sHydrationOptimization, severity |-> 2,
         why_this_result |-> "Improving hydration is the most impactful first step for most skin types"],
     recommendations |->
        << "Use a gentle cleanser twice daily",
           "Apply moisturizer appropriate for your skin type",
           "Use sunscreen daily (SPF 30+)",
           "Stay hydrated - drink 2L water daily",
           "Consider adding a vitamin C serum for brightness" >>]

\* What the vision model call produced: no parseable JSON object (None or an
\* empty dict), or a report.
Unparseable == [m \in {} |-> 0]

\* analyze_skin_with_ai from the parsed response on (lines 1123-1134)
analyze_skin_with_ai(result) ==
    IF DOMAIN result = {} \/ ValidateRaises(result)
    THEN get_fallback_analysis
    ELSE validate_ai_response(result)

(***************************************************************************)
(* generate_diet_recommendations.  A food or supplement item is            *)
(* represented by its name (each catalog name has one reason).             *)
(***************************************************************************)
FOODS_DATABASE ==
    [omega_3_rich |->
        << [name |-> "Fatty fish (salmon, mackerel)"],
           [name |-> "Walnuts"],
           [name |-> "Chia seeds"],
           [name |-> "Flaxseeds"] >>,
     antioxidant_rich |->
        << [name |-> "Berries (blueberries, strawberries)"],
           [name |-> "Dark leafy greens (spinach, kale)"],
           [name |-> "Green tea"],
           [name |-> "Tomatoes"] >>,
     zinc_rich |->
        << [name |-> "Pumpkin seeds"],
           [name |-> "Chickpeas"],
           [name |-> "Lean beef"],
           [name |-> "Oysters"] >>,
     vitamin_c_rich |->
        << [name |-> "Citrus fruits (oranges, lemons)"],
           [name |-> "Bell peppers"],
           [name |-> "Kiwi"],
           [name |-> "Papaya"] >>,
     vitamin_e_rich |->
        << [name |-> "Almonds"],
           [name |-> "Sunflower seeds"],
           [name |-> "Avocados"] >>,
     hydrating_foods |->
        << [name |-> "Cucumber"],
           [name |-> "Watermelon"],
           [name |-> "Celery"],
           [name |-> "Coconut water"] >>,
     anti_inflammatory |->
        << [name |-> "Turmeric"],
           [name |-> "Ginger"],
           [name |-> "Extra virgin olive oil"],
           [name |-> "Fatty fish"] >>,
     probiotic_rich |->
        << [name |-> "Yogurt (unsweetened)"],
           [name |-> "Kefir"],
           [name |-> "Sauerkraut"],
           [name |-> "Kimchi"] >>,
     whole_grains |->
        << [name |-> "Brown rice"],
           [name |-> "Quinoa"],
           [name |-> "Oats"] >>]

FOODS_TO_AVOID ==
    [high_sugar |->
        << [name |-> "Sugary drinks (sodas, sweetened juices)"],
           [name |-> "Candy and sweets"],
           [name |-> "Pastries and cakes"] >>,
     processed_foods |->
        << [name |-> "Fast food"],
           [name |-> "Processed snacks (chips, crackers)"],
           [name |-> "Ultra-processed foods"] >>,
     dairy_limit |->
        << [name |-> "Milk (especially skim)"],
           [name |-> "Ice cream"] >>,
     fried_foods |->
        << [name |-> "Fried foods"],
           [name |-> "Deep-fried snacks"] >>,
     refined_carbs |->
        << [name |-> "White bread"],
           [name |-> "White pasta"],
           [name |-> "White rice (excess)"] >>,
     alcohol |->
        << [name |-> "Alcohol"],
           [name |-> "Cocktails with sugar"] >>,
     caffeine_excess |->
        << [name |-> "Excess coffee (>3 cups)"],
           [name |-> "Energy drinks"] >>,
     spicy_foods |->
        << [name |-> "Very spicy dishes"],
           [name |-> "Hot peppers (excess)"] >>]

SUPPLEMENTS_DATABASE ==
    [omega_3 |-> [name |-> "Omega-3 Fish Oil"],
     vitamin_d |-> [name |-> "Vitamin D"],
     zinc |-> [name |-> "Zinc"],
     vitamin_c |-> [name |-> "Vitamin C"],
     vitamin_e |-> [name |-> "Vitamin E"],
     probiotics |-> [name |-> "Probiotics"],
     biotin |-> [name |-> "Biotin"],
     collagen |-> [name |-> "Collagen peptides"],
     evening_primrose |-> [name |-> "Evening Primrose Oil"]]

HYDRATION_TIPS ==
    [general |-> "Aim for 8 glasses (2 liters) of water daily. Increase intake if exercising or in hot weather.",
     dry_skin |-> "Drink at least 10 glasses of water daily and include hydrating foods like cucumber and watermelon.",
     oily_skin |-> "Stay well hydrated - 8 glasses daily. Proper hydration can actually help regulate oil production.",
     acne |-> "Drink plenty of water to flush toxins. Add lemon for vitamin C boost. Avoid sugary drinks.",
     dehydrated |-> "Increase water intake to 10-12 glasses daily. Consider electrolyte-rich coconut water.",
     sensitive |-> "Room temperature water is gentler. Herbal teas like chamomile can also soothe from within."]

\* acne, pimple, breakout, blemish, blackhead, whitehead
AcneKeywords ==
    << <<"a", "c", "n", "e">>,
       <<"p", "i", "m", "p", "l", "e">>,
       <<"b", "r", "e", "a", "k", "o", "u", "t">>,
       <<"b", "l", "e", "m", "i", "s", "h">>,
       <<"b", "l", "a", "c", "k", "h", "e", "a", "d">>,
       <<"w", "h", "i", "t", "e", "h", "e", "a", "d">> >>

\* dehydration, dehydrated, dry
DehydrationKeywords ==
    << <<"d", "e", "h", "y", "d", "r", "a", "t", "i", "o", "n">>,
       <<"d", "e", "h", "y", "d", "r", "a", "t", "e", "d">>,
       <<"d", "r", "y">> >>

\* redness, inflammation, rosacea, irritation, sensitive
RednessKeywords ==
    << <<"r", "e", "d", "n", "e", "s", "s">>,
       <<"i", "n", "f", "l", "a", "m", "m", "a", "t", "i", "o", "n">>,
       <<"r", "o", "s", "a", "c", "e", "a">>,
       <<"i", "r", "r", "i", "t", "a", "t", "i", "o", "n">>,
       <<"s", "e", "n", "s", "i", "t", "i", "v", "e">> >>

\* uneven, dull, dark spot, hyperpigmentation, pigment
UnevenKeywords ==
    << <<"u", "n", "e", "v", "e", "n">>,
       <<"d", "u", "l", "l">>,
       <<"d", "a", "r", "k", " ", "s", "p", "o", "t">>,
       <<"h", "y", "p", "e", "r", "p", "i", "g", "m", "e", "n", "t", "a", "t", "i", "o", "n">>,
       <<"p", "i", "g", "m", "e", "n", "t">> >>

\* wrinkle, fine line, aging, sagging
AgingKeywords ==
    << <<"w", "r", "i", "n", "k", "l", "e">>,
       <<"f", "i", "n", "e", " ", "l", "i", "n", "e">>,
       <<"a", "g", "i", "n", "g">>,
       <<"s", "a", "g", "g", "i", "n", "g">> >>

\* pore, large pore
PoreKeywords ==
    << <<"p", "o", "r", "e">>,
       <<"l", "a", "r", "g", "e", " ", "p", "o", "r", "e">> >>

\* issue_names and issue_severities (lines 462-468) as one set of
\* [name, severity]: the lower-cased names, each with the severity of the
\* last issue of that name
IssueEntries(issues) ==
    LET lowered == [i \in 1..Len(issues) |-> Lower(issues[i].name)]
    IN  { [name |-> lowered[i], severity |-> issues[i].severity] :
            i \in {k \in 1..Len(issues) : \A j \in (k + 1)..Len(issues) : lowered[j] # lowered[k]} }

\* The orders in which a set of strings may be iterated: the language does
\* not fix it, and it changes with the hash seed of the process.
RECURSIVE Orders(_)
Orders(S) ==
    IF S = {} THEN {<<>>}
    ELSE UNION {{<<x>> \o o : o \in Orders(S \ {x})} : x \in S}

\* The names that contain the first keyword that occurs in some name: those
\* at which the loops of has_issue(keywords) can return
Matching(keywords, entries) ==
    LET hits == {k \in 1..Len(keywords) : \E e \in entries : Contains(keywords[k], e.name)}
    IN  IF hits = {} THEN {} ELSE {e \in entries : Contains(keywords[SetMin(hits)], e.name)}

\* The return value <<found, severity>> at the first of these names in the
\* iteration order
FirstMatch(matching, order) ==
    IF matching = {} THEN <<FALSE, 0>>
    ELSE <<TRUE, order[SetMin({i \in 1..Len(order) : order[i] \in matching})].severity>>

\* has_issue(keywords) when issue_names is iterated in the given order
has_issue(keywords, issues, order) ==
    FirstMatch(Matching(keywords, IssueEntries(issues)), order)

\* Take that does not cut the list
Take_NoCut(items, n) == items

\* Take that keeps the last n items
Take_FromEnd(items, n) == SubSeq(items, Len(items) - Min2(n, Len(items)) + 1, Len(items))

\* items[:n]
Take(items, n) == SubSeq(items, 1, Min2(n, Len(items)))

\* dedupe(items): first occurrence of each name kept, order preserved
RECURSIVE dedupe(_)
dedupe(items) ==
    IF Len(items) = 0 THEN <<>>
    ELSE LET front == dedupe(SubSeq(items, 1, Len(items) - 1))
             x     == items[Len(items)]
         IN  IF \E i \in 1..Len(front) : front[i].name = x.name
             THEN front ELSE Append(front, x)

MaxEatMore == 8
MaxAvoid == 6
MaxSupplements == 4

\* The general skin health items of the backfill (lines 569-579)
GeneralEatMore ==
    Take(FOODS_DATABASE.antioxidant_rich, 2) \o Take(FOODS_DATABASE.hydrating_foods, 1)

GeneralAvoid ==
    Take(FOODS_TO_AVOID.processed_foods, 1) \o Take(FOODS_TO_AVOID.high_sugar, 1)

GeneralSupplements == <<SUPPLEMENTS_DATABASE.vitamin_d, SUPPLEMENTS_DATABASE.omega_3>>

\* eat_more as the rules of lines 478-566 leave it, before the backfill
RuleEatMore(skin_type, acne, dehydration, redness, uneven, aging, pores) ==
    LET F == FOODS_DATABASE
        A == FOODS_TO_AVOID
        S == SUPPLEMENTS_DATABASE
        has_acne        == acne[1]
        has_dehydration == dehydration[1]
        has_redness     == redness[1]
        has_uneven      == uneven[1]
        has_aging       == aging[1]
        has_pores       == pores[1]
    IN
        (IF has_acne /\ acne[2] > 3
         THEN Take(F.omega_3_rich, 2) \o Take(F.zinc_rich, 2) \o Take(F.antioxidant_rich, 2)
         ELSE IF has_acne THEN Take(F.zinc_rich, 1) \o Take(F.antioxidant_rich, 1) ELSE <<>>)
     \o (IF skin_type = sOily
         THEN Take(F.whole_grains, 2) \o SubSeq(F.antioxidant_rich, 3, 3) ELSE <<>>)
     \o (IF skin_type = sDry
         THEN F.vitamin_e_rich \o Take(F.omega_3_rich, 2) \o Take(F.hydrating_foods, 2) ELSE <<>>)
     \o (IF has_dehydration /\ dehydration[2] > 3
         THEN F.hydrating_foods \o Take(F.omega_3_rich, 1) ELSE <<>>)
     \o (IF has_redness /\ redness[2] > 3
         THEN F.anti_inflammatory \o Take(F.omega_3_rich, 1)
         ELSE IF has_redness THEN Take(F.anti_inflammatory, 2) ELSE <<>>)
     \o (IF has_uneven
         THEN Take(F.vitamin_c_rich, 3) \o Take(F.vitamin_e_rich, 2) ELSE <<>>)
     \o (IF has_aging /\ aging[2] > 3
         THEN Take(F.antioxidant_rich, 3) \o Take(F.vitamin_c_rich, 2) \o Take(F.omega_3_rich, 1)
         ELSE <<>>)
     \o (IF skin_type = sSensitive
         THEN Take(F.anti_inflammatory, 2) \o Take(F.probiotic_rich, 2) ELSE <<>>)
     \o (IF has_pores /\ pores[2] > 4
         THEN Take(F.antioxidant_rich, 2) \o Take(F.vitamin_c_rich, 1) ELSE <<>>)

\* avoid as the rules of lines 478-566 leave it, before the backfill
RuleAvoid(skin_type, acne, dehydration, redness, uneven, aging, pores) ==
    LET F == FOODS_DATABASE
        A == FOODS_TO_AVOID
        S == SUPPLEMENTS_DATABASE
        has_acne        == acne[1]
        has_dehydration == dehydration[1]
        has_redness     == redness[1]
        has_uneven      == uneven[1]
        has_aging       == aging[1]
        has_pores       == pores[1]
    IN
        (IF has_acne /\ acne[2] > 3
         THEN Take(A.high_sugar, 2) \o A.dairy_limit \o Take(A.fried_foods, 1)
         ELSE IF has_acne THEN Take(A.high_sugar, 1) ELSE <<>>)
     \o (IF skin_type = sOily
         THEN Take(A.refined_carbs, 2) \o Take(A.fried_foods, 1) ELSE <<>>)
     \o (IF skin_type = sDry
         THEN A.alcohol \o Take(A.caffeine_excess, 1) ELSE <<>>)
     \o (IF has_dehydration /\ dehydration[2] > 3
         THEN A.caffeine_excess \o Take(A.alcohol, 1) ELSE <<>>)
     \o (IF has_redness /\ redness[2] > 3
         THEN A.spicy_foods \o A.alcohol \o Take(A.processed_foods, 1)
         ELSE IF has_redness THEN Take(A.spicy_foods, 1) ELSE <<>>)
     \o (IF has_uneven THEN Take(A.processed_foods, 2) ELSE <<>>)
     \o (IF has_aging /\ aging[2] > 3
         THEN Take(A.high_sugar, 2) \o Take(A.alcohol, 1) ELSE <<>>)
     \o (IF skin_type = sSensitive
         THEN A.spicy_foods \o Take(A.alcohol, 1) ELSE <<>>)
     \o (IF has_pores /\ pores[2] > 4
         THEN A.fried_foods \o Take(A.refined_carbs, 1) ELSE <<>>)

\* supplements as the rules of lines 478-566 leave it, before the backfill
RuleSupplements(skin_type, acne, dehydration, redness, uneven, aging, pores) ==
    LET F == FOODS_DATABASE
        A == FOODS_TO_AVOID
        S == SUPPLEMENTS_DATABASE
        has_acne        == acne[1]
        has_dehydration == dehydration[1]
        has_redness     == redness[1]
        has_uneven      == uneven[1]
        has_aging       == aging[1]
        has_pores       == pores[1]
    IN
        (IF has_acne /\ acne[2] > 3 THEN <<S.zinc, S.omega_3>> ELSE <<>>)
     \o (IF skin_type = sDry THEN <<S.omega_3, S.evening_primrose>> ELSE <<>>)
     \o (IF has_redness /\ redness[2] > 3 THEN <<S.omega_3>> ELSE <<>>)
     \o (IF has_uneven THEN <<S.vitamin_c, S.vitamin_e>> ELSE <<>>)
     \o (IF has_aging /\ aging[2] > 3 THEN <<S.collagen, S.vitamin_c>> ELSE <<>>)
     \o (IF skin_type = sSensitive THEN <<S.probiotics>> ELSE <<>>)

\* Backfill that puts the general items in front of the rules' items
Backfill_InFront(items, least, general) ==
    IF Len(items) < least THEN general \o items ELSE items

\* if len(items) < least: items.extend(general)  (lines 568-579)
Backfill(items, least, general) ==
    IF Len(items) < least THEN items \o general ELSE items

\* The body of generate_diet_recommendations once the has_issue results
\* (acne, dehydration, redness, uneven, aging, pores) are known.
DietPlanFor(skin_type, acne, dehydration, redness, uneven, aging, pores) ==
    LET F == FOODS_DATABASE
        A == FOODS_TO_AVOID
        S == SUPPLEMENTS_DATABASE
        has_acne        == acne[1]
        has_dehydration == dehydration[1]
        has_redness     == redness[1]
        has_uneven      == uneven[1]
        has_aging       == aging[1]
        has_pores       == pores[1]
        eat1   == RuleEatMore(skin_type, acne, dehydration, redness, uneven, aging, pores)
        avoid1 == RuleAvoid(skin_type, acne, dehydration, redness, uneven, aging, pores)
        supp1  == RuleSupplements(skin_type, acne, dehydration, redness, uneven, aging, pores)
        \* general skin health backfill (lines 568-579)
        eat2   == Backfill(eat1, 3, GeneralEatMore)
        avoid2 == Backfill(avoid1, 2, GeneralAvoid)
        supp2  == Backfill(supp1, 2, GeneralSupplements)
        \* line 598 parses as
        \*   (skin_type == 'dry' or has_dehydration[0])
        \*       if isinstance(has_dehydration, tuple) else has_dehydration
        \* and has_dehydration is a bool, so the condition is has_dehydration
        hydration_tip ==
            IF has_dehydration THEN HYDRATION_TIPS.dry_skin
            ELSE IF skin_type = sOily THEN HYDRATION_TIPS.oily_skin
            ELSE IF has_acne THEN HYDRATION_TIPS.acne
            ELSE IF skin_type = sSensitive \/ has_redness THEN HYDRATION_TIPS.sensitive
            ELSE HYDRATION_TIPS.general
    IN  [eat_more             |-> Take(dedupe(eat2), MaxEatMore),
         avoid                |-> Take(dedupe(avoid2), MaxAvoid),
         hydration_tip        |-> hydration_tip,
         supplements_optional |-> Take(dedupe(supp2), MaxSupplements)]

\* has_issue(...) for the six keyword lists (acne, dehydration, redness,
\* uneven, aging, pores) under every order in which issue_names may be
\* iterated; the matching names do not depend on the order and are computed
\* once
HasIssueResults(issues) ==
    UNION { { << FirstMatch(m[1], order), FirstMatch(m[2], order),
                 FirstMatch(m[3], order), FirstMatch(m[4], order),
                 FirstMatch(m[5], order), FirstMatch(m[6], order) >> :
                   order \in Orders(m[7]) } :
              m \in UNION { { << Matching(AcneKeywords, entries),
                                 Matching(DehydrationKeywords, entries),
                                 Matching(RednessKeywords, entries),
                                 Matching(UnevenKeywords, entries),
                                 Matching(AgingKeywords, entries),
                                 Matching(PoreKeywords, entries),
                                 entries >> } :
                            entries \in {IssueEntries(issues)} } }

\* The plans generate_diet_recommendations(skin_type, issues) can return, one
\* for each order in which issue_names may be iterated
generate_diet_recommendations(skin_type, issues) ==
    { DietPlanFor(skin_type, f[1], f[2], f[3], f[4], f[5], f[6]) : f \in HasIssueResults(issues) }

(***************************************************************************)
(* Routines.  A step is [order, locked, completed]; a product is           *)
(* represented by its product_type.                                        *)
(***************************************************************************)
\* steps as validate_routine_response and get_fallback_routine produce them:
\* the first unlocked, the rest locked, none completed
FreshSteps(n) == [i \in 1..n |-> [order |-> i, locked |-> i > 1, completed |-> FALSE]]

get_fallback_routine ==
    [morning_routine |-> FreshSteps(4),
     evening_routine |-> FreshSteps(4),
     weekly_routine  |-> FreshSteps(2),
     products        |-> <<"cleanser", "toner", "serum", "moisturizer", "sunscreen">>]

\* A routine the language model returned and validate_routine_response kept
ShortRoutine ==
    [morning_routine |-> FreshSteps(2),
     evening_routine |-> FreshSteps(1),
     weekly_routine  |-> FreshSteps(0),
     products        |-> <<"serum">>]

\* The possible results of generate_routine_with_ai
RoutineOutcomes == {get_fallback_routine, ShortRoutine}

(***************************************************************************)
(* The responses of POST /scan/analyze and GET /scan/{id}.                 *)
(***************************************************************************)
FREE_SCAN_LIMIT == 1

locked_features ==
    << "issue_details", "skin_metrics", "full_routine", "diet_plan",
       "product_recommendations", "progress_tracking", "detailed_explanations" >>

\* IssuesPreview built from the first issue only
IssuesPreview_FirstOnly(all_issues) ==
    [i \in 1..Min2(1, Len(all_issues)) |->
        [name               |-> all_issues[i].name,
         locked             |-> TRUE,
         severity_locked    |-> TRUE,
         description_locked |-> TRUE]]

\* IssuesPreview that copies the severity of the issue into the entry
IssuesPreview_WithSeverity(all_issues) ==
    [i \in 1..Len(all_issues) |->
        [name               |-> all_issues[i].name,
         severity           |-> all_issues[i].severity,
         locked             |-> TRUE,
         severity_locked    |-> TRUE,
         description_locked |-> TRUE]]

\* IssuesPreview that marks only the first entry as locked
IssuesPreview_FirstLocked(all_issues) ==
    [i \in 1..Len(all_issues) |->
        [name               |-> all_issues[i].name,
         locked             |-> i = 1,
         severity_locked    |-> TRUE,
         description_locked |-> TRUE]]

\* issues_preview (lines 1929-1937 and 2083-2091)
IssuesPreview(all_issues) ==
    [i \in 1..Len(all_issues) |->
        [name               |-> all_issues[i].name,
         locked             |-> TRUE,
         severity_locked    |-> TRUE,
         description_locked |-> TRUE]]

RoutineStepsCount(routine) ==
    Len(routine.morning_routine) + Len(routine.evening_routine) + Len(routine.weekly_routine)

\* RestrictedAnalysis that passes the stored primary_concern through whole
RestrictedAnalysis_WholeConcern(analysis, score_data) ==
    [skin_type       |-> analysis.skin_type,
     overall_score   |-> score_data.score,
     score_label     |-> score_data.label,
     strengths       |-> Take(analysis.strengths, 2),
     primary_concern |-> analysis.primary_concern,
     issue_count     |-> Len(analysis.issues),
     issues_preview  |-> [i \in 1..Len(analysis.issues) |->
                             [name               |-> analysis.issues[i].name,
                              locked             |-> TRUE,
                              severity_locked    |-> TRUE,
                              description_locked |-> TRUE]]]

\* The `analysis` object of the free response
RestrictedAnalysis(analysis, score_data) ==
    [skin_type       |-> analysis.skin_type,
     overall_score   |-> score_data.score,
     score_label     |-> score_data.label,
     strengths       |-> Take(analysis.strengths, 2),
     primary_concern |-> [name            |-> analysis.primary_concern.name,
                          why_this_result |-> analysis.primary_concern.why_this_result],
     issue_count     |-> Len(analysis.issues),
     issues_preview  |-> IssuesPreview(analysis.issues)]

\* The `preview` object of the free response
PreviewCounts(analysis, routine, products, diet_recommendations) ==
    [issue_count         |-> Len(analysis.issues),
     routine_steps_count |-> RoutineStepsCount(routine),
     diet_items_count    |-> Len(diet_recommendations.eat_more) + Len(diet_recommendations.avoid),
     products_count      |-> Len(products)]

\* The `analysis` object of the premium response (score_description,
\* score_factors and metrics_breakdown are not modelled)
FullAnalysis(analysis, score_data) ==
    [skin_type            |-> analysis.skin_type,
     skin_type_confidence |-> analysis.skin_type_confidence,
     skin_metrics         |-> analysis.skin_metrics,
     strengths            |-> analysis.strengths,
     issues               |-> analysis.issues,
     primary_concern      |-> analysis.primary_concern,
     recommendations      |-> analysis.recommendations,
     overall_score        |-> score_data.score,
     score_label          |-> score_data.label,
     calculation_method   |-> score_data.calculation_method]

\* AnalyzeResponse whose free branch also returns the routine
AnalyzeResponse_WithRoutine(user_plan, scan, score_data, routine, products, diet_recommendations) ==
    IF user_plan = "premium"
    THEN [id                  |-> scan.id,
          user_plan           |-> "premium",
          locked              |-> FALSE,
          analysis            |-> FullAnalysis(scan.analysis, score_data),
          routine             |-> scan.routine,
          products            |-> scan.products,
          diet_recommendations |-> diet_recommendations,
          progress_tracking_enabled |-> TRUE,
          created_at          |-> scan.created_at,
          image_hash          |-> scan.image_hash]
    ELSE [id              |-> scan.id,
          user_plan       |-> "free",
          locked          |-> TRUE,
          analysis        |-> RestrictedAnalysis(scan.analysis, score_data),
          routine         |-> scan.routine,
          locked_features |-> locked_features,
          preview         |-> PreviewCounts(scan.analysis, routine, products, diet_recommendations),
          created_at      |-> scan.created_at,
          image_hash      |-> scan.image_hash,
          upgrade_message |-> "You discovered what's affecting your skin. Unlock full analysis to see severity and solutions."]

\* POST /scan/analyze, lines 1885-1976
AnalyzeResponse(user_plan, scan, score_data, routine, products, diet_recommendations) ==
    IF user_plan = "premium"
    THEN [id                  |-> scan.id,
          user_plan           |-> "premium",
          locked              |-> FALSE,
          analysis            |-> FullAnalysis(scan.analysis, score_data),
          routine             |-> scan.routine,
          products            |-> scan.products,
          diet_recommendations |-> diet_recommendations,
          progress_tracking_enabled |-> TRUE,
          created_at          |-> scan.created_at,
          image_hash          |-> scan.image_hash]
    ELSE [id              |-> scan.id,
          user_plan       |-> "free",
          locked          |-> TRUE,
          analysis        |-> RestrictedAnalysis(scan.analysis, score_data),
          locked_features |-> locked_features,
          preview         |-> PreviewCounts(scan.analysis, routine, products, diet_recommendations),
          created_at      |-> scan.created_at,
          image_hash      |-> scan.image_hash,
          upgrade_message |-> "You discovered what's affecting your skin. Unlock full analysis to see severity and solutions."]

\* ScanDetailResponse that returns the Restricted view whatever the plan
ScanDetailResponse_AlwaysRestricted(user_plan, scan) ==
    [id              |-> scan.id,
     user_plan       |-> "free",
     locked          |-> TRUE,
     image_base64    |-> scan.image_base64,
     image_hash      |-> scan.image_hash,
     analysis        |-> RestrictedAnalysis(scan.analysis, scan.score_data),
     locked_features |-> locked_features,
     preview         |-> PreviewCounts(scan.analysis, scan.routine, scan.products,
                                       scan.diet_recommendations),
     created_at      |-> scan.created_at,
     upgrade_message |-> "Unlock full skin analysis, routine & diet plan"]

\* GET /scan/{id}, lines 2027-2134 (a stored scan always has its
\* diet_recommendations, a non-empty dict)
ScanDetailResponse(user_plan, scan) ==
    IF user_plan = "premium"
    THEN [id                  |-> scan.id,
          user_plan           |-> "premium",
          locked              |-> FALSE,
          image_base64        |-> scan.image_base64,
          image_hash          |-> scan.image_hash,
          analysis            |-> FullAnalysis(scan.analysis, scan.score_data),
          routine             |-> scan.routine,
          products            |-> scan.products,
          diet_recommendations |-> scan.diet_recommendations,
          progress_tracking_enabled |-> TRUE,
          created_at          |-> scan.created_at]
    ELSE [id              |-> scan.id,
          user_plan       |-> "free",
          locked          |-> TRUE,
          image_base64    |-> scan.image_base64,
          image_hash      |-> scan.image_hash,
          analysis        |-> RestrictedAnalysis(scan.analysis, scan.score_data),
          locked_features |-> locked_features,
          preview         |-> PreviewCounts(scan.analysis, scan.routine, scan.products,
                                            scan.diet_recommendations),
          created_at      |-> scan.created_at,
          upgrade_message |-> "Unlock full skin analysis, routine & diet plan"]

(***************************************************************************)
(* The request handlers.  POST /scan/analyze is a coroutine: between its   *)
(* awaited database calls other requests run, so it is modelled as one     *)
(* action per database call.                                               *)
(***************************************************************************)
Users == {"u1"}
Procs == {"p1", "p2"}
Images == {"img1"}
MaxScans == 2

\* Reports the vision model may return
RawMetrics(v) == JDict([m \in DOMAIN metric_weights |-> JDict([score |-> JNum(100 * v)])])

RawFourIssues ==
    [skin_type    |-> JStr(<<"D", "r", "y">>),
     skin_metrics |-> RawMetrics(88),
     strengths    |-> JList(<< JDict([name |-> JStr(<<"E", "v", "e", "n", " ", "t", "o", "n", "e">>),
                                      description |-> JStr("Tone is even across the face"),
                                      confidence |-> JNum(90)]),
                               JDict([name |-> JStr(<<"F", "i", "r", "m", "n", "e", "s", "s">>),
                                      description |-> JStr("Skin looks firm"),
                                      confidence |-> JNum(40)]),
                               JDict([name |-> JStr(<<"S", "m", "o", "o", "t", "h", " ", "t", "e", "x", "t", "u", "r", "e">>)]) >>),
     issues       |-> JList(<< JDict([name |-> JStr(<<"F", "i", "n", "e", " ", "L", "i", "n", "e", "s">>), severity |-> JNum(300),
                                      confidence |-> JNum(80), priority |-> JStr("minor"),
                                      description |-> JStr("Fine lines around the eyes"),
                                      why_this_result |-> JStr("Visible lines at the outer eye corners")]),
                               JDict([name |-> JStr(<<"A", "c", "n", "e">>), severity |-> JNum(750),
                                      confidence |-> JNum(90), priority |-> JStr("primary"),
                                      description |-> JStr("Active breakouts on the chin"),
                                      why_this_result |-> JStr("Inflamed spots on chin and jaw")]),
                               JDict([name |-> JStr(<<"D", "e", "h", "y", "d", "r", "a", "t", "i", "o", "n">>), severity |-> JNum(600),
                                      confidence |-> JNum(30)]),
                               JDict([name |-> JStr(<<"L", "a", "r", "g", "e", "-", "P", "o", "r", "e", "s">>), severity |-> JNum(500),
                                      confidence |-> JNum(70), priority |-> JStr("urgent")]) >>),
     primary_concern |-> JDict([name |-> JStr(<<"R", "e", "d", "n", "e", "s", "s">>), severity |-> JNum(400),
                                why_this_result |-> JStr("Diffuse redness on both cheeks")])]

RawClear ==
    [skin_type    |-> JStr(<<"n", "o", "r", "m", "a", "l">>),
     skin_metrics |-> RawMetrics(90),
     strengths    |-> JList(<<>>),
     issues       |-> JList(<<>>)]

AIOutcomes == {Unparseable, RawFourIssues, RawClear}

NoEntry == [none |-> TRUE]
NoResponse == [endpoint |-> "none", status |-> 0]
Idle == <<>>
\* A pure function of the validation or diet specification not applied yet
NoOutput == [status |-> "none"]
NoDietInput == [skin_type |-> sNormal, issues |-> <<>>]

Init ==
    /\ users = [u \in Users |-> [plan |-> "free", scan_count |-> 0]]
    /\ scans = <<>>
    /\ scan_cache = [img \in Images |-> NoEntry]
    /\ next_id = 1
    /\ pc = [p \in Procs |-> "idle"]
    /\ cur = [p \in Procs |-> Idle]
    /\ work = [p \in Procs |-> Idle]
    /\ resp = NoResponse
    /\ analyzed = [u \in Users |-> 0]
    /\ made_free = {}
    /\ sc_in = [issues |-> <<>>, metrics |-> NoMetrics]
    /\ sc_out = [score |-> -1]
    /\ va_in = Unparseable
    /\ va_out = NoOutput
    /\ di_in = NoDietInput
    /\ di_out = NoOutput

\* get_current_user and the scan limit check (lines 1782-1796)
AnalyzeStart(p, u, img) ==
    /\ pc[p] = "idle"
    /\ IF users[u].plan = "free" /\ users[u].scan_count >= FREE_SCAN_LIMIT
       THEN /\ resp' = [endpoint |-> "analyze", user |-> u, status |-> 403,
                        body |-> [error            |-> "scan_limit_reached",
                                  scan_count       |-> users[u].scan_count,
                                  scan_limit       |-> FREE_SCAN_LIMIT,
                                  upgrade_required |-> TRUE]]
            /\ UNCHANGED <<pc, cur, work>>
       ELSE /\ (next_id - 1) + Cardinality({q \in Procs : pc[q] # "idle"}) < MaxScans
            /\ pc' = [pc EXCEPT ![p] = "lookup"]
            /\ cur' = [cur EXCEPT ![p] = [id |-> u, plan |-> users[u].plan,
                                          scan_count |-> users[u].scan_count]]
            /\ work' = [work EXCEPT ![p] = [image |-> img]]
            /\ UNCHANGED resp
    /\ UNCHANGED <<users, scans, scan_cache, next_id, analyzed, made_free, fn_vars>>

\* db.scan_cache.find_one, and on a miss the analysis, the score and the
\* routine (lines 1804-1829)
AnalyzeLookup(p) ==
    /\ pc[p] = "lookup"
    /\ IF scan_cache[work[p].image] # NoEntry
       THEN LET cached == scan_cache[work[p].image]
            IN  /\ work' = [work EXCEPT ![p] =
                               [image      |-> work[p].image,
                                analysis   |-> cached.analysis,
                                routine    |-> cached.routine,
                                products   |-> cached.products,
                                score_data |-> cached.score_data]]
                /\ pc' = [pc EXCEPT ![p] = "insert"]
       ELSE \E result \in AIOutcomes, routine_data \in RoutineOutcomes :
                LET analysis == analyze_skin_with_ai(result)
                IN  /\ work' = [work EXCEPT ![p] =
                               [image      |-> work[p].image,
                                analysis   |-> analysis,
                                routine    |-> [morning_routine |-> routine_data.morning_routine,
                                                evening_routine |-> routine_data.evening_routine,
                                                weekly_routine  |-> routine_data.weekly_routine],
                                products   |-> routine_data.products,
                                score_data |-> calculate_deterministic_score(
                                                   analysis.issues, analysis.skin_metrics)]]
                    /\ pc' = [pc EXCEPT ![p] = "cache"]
    /\ UNCHANGED <<users, scans, scan_cache, next_id, cur, resp, analyzed, made_free, fn_vars>>

\* analyze_skin_with_ai raises (AI service not configured), or any other
\* call does: the request ends with status 500 (lines 1978-1982)
AnalyzeError(p) ==
    /\ pc[p] = "lookup"
    /\ resp' = [endpoint |-> "analyze", user |-> cur[p].id, status |-> 500]
    /\ pc' = [pc EXCEPT ![p] = "idle"]
    /\ cur' = [cur EXCEPT ![p] = Idle]
    /\ work' = [work EXCEPT ![p] = Idle]
    /\ UNCHANGED <<users, scans, scan_cache, next_id, analyzed, made_free, fn_vars>>

\* db.scan_cache.update_one(..., upsert=True) (lines 1831-1844)
AnalyzeCacheStore(p) ==
    /\ pc[p] = "cache"
    /\ scan_cache' = [scan_cache EXCEPT ![work[p].image] =
                         [analysis   |-> work[p].analysis,
                          routine    |-> work[p].routine,
                          products   |-> work[p].products,
                          score_data |-> work[p].score_data]]
    /\ pc' = [pc EXCEPT ![p] = "insert"]
    /\ UNCHANGED <<users, scans, next_id, cur, work, resp, analyzed, made_free, fn_vars>>

\* the diet plan and db.scans.insert_one(scan) (lines 1846-1876)
AnalyzeInsert(p) ==
    /\ pc[p] = "insert"
    /\ \E diet_recommendations \in
            generate_diet_recommendations(work[p].analysis.skin_type, work[p].analysis.issues) :
          LET scan == [id           |-> next_id,
                       user_id      |-> cur[p].id,
                       image_base64 |-> work[p].image,
                       image_hash   |-> work[p].image,
                       analysis     |-> work[p].analysis,
                       score_data   |-> work[p].score_data,
                       routine      |-> work[p].routine,
                       products     |-> work[p].products,
                       diet_recommendations |-> diet_recommendations,
                       created_at   |-> "utcnow"]
          IN  /\ scans' = Append(scans, scan)
              /\ work' = [work EXCEPT ![p] =
                             [image      |-> work[p].image,
                              routine    |-> work[p].routine,
                              products   |-> work[p].products,
                              score_data |-> work[p].score_data,
                              diet_recommendations |-> diet_recommendations,
                              scan       |-> scan]]
    /\ next_id' = next_id + 1
    /\ analyzed' = [analyzed EXCEPT ![cur[p].id] = @ + 1]
    /\ made_free' = IF cur[p].plan = "free" THEN made_free \cup {next_id} ELSE made_free
    /\ pc' = [pc EXCEPT ![p] = "count"]
    /\ UNCHANGED <<users, scan_cache, cur, resp, fn_vars>>

\* db.users.update_one({'$set': {'scan_count': scan_count + 1}}) and the
\* response (lines 1878-1976)
AnalyzeFinish(p) ==
    /\ pc[p] = "count"
    /\ users' = [users EXCEPT ![cur[p].id].scan_count = cur[p].scan_count + 1]
    /\ resp' = [endpoint |-> "analyze", user |-> cur[p].id, status |-> 200,
                body |-> AnalyzeResponse(cur[p].plan, work[p].scan, work[p].score_data,
                                         work[p].routine, work[p].products,
                                         work[p].diet_recommendations)]
    /\ pc' = [pc EXCEPT ![p] = "idle"]
    /\ cur' = [cur EXCEPT ![p] = Idle]
    /\ work' = [work EXCEPT ![p] = Idle]
    /\ UNCHANGED <<scans, scan_cache, next_id, analyzed, made_free, fn_vars>>

\* The stored scans with this id that belong to the user
FindScan(scan_id, u) ==
    {i \in 1..Len(scans) : scans[i].id = scan_id /\ scans[i].user_id = u}

\* GET /scan/{scan_id} (lines 2016-2134)
GetScanDetail(u, scan_id) ==
    /\ resp' = IF FindScan(scan_id, u) = {}
               THEN [endpoint |-> "detail", user |-> u, status |-> 404]
               ELSE [endpoint |-> "detail", user |-> u, status |-> 200,
                     body |-> ScanDetailResponse(users[u].plan,
                                                 scans[SetMin(FindScan(scan_id, u))])]
    /\ UNCHANGED <<users, scans, scan_cache, next_id, pc, cur, work, analyzed, made_free, fn_vars>>

\* DELETE /scan/{scan_id} (lines 2136-2147)
DeleteScan(u, scan_id) ==
    /\ IF FindScan(scan_id, u) = {}
       THEN /\ resp' = [endpoint |-> "delete", user |-> u, status |-> 404]
            /\ UNCHANGED <<scans, made_free>>
       ELSE /\ scans' = SelectSeq(scans, LAMBDA sc : sc.id # scan_id)
            /\ made_free' = made_free \ {scan_id}
            /\ resp' = [endpoint |-> "delete", user |-> u, status |-> 200]
    /\ UNCHANGED <<users, scan_cache, next_id, pc, cur, work, analyzed, fn_vars>>

\* POST /subscription/upgrade (lines 2823-2852)
UpgradeSubscription(u, plan) ==
    /\ IF plan # "premium"
       THEN /\ resp' = [endpoint |-> "upgrade", user |-> u, status |-> 400]
            /\ UNCHANGED users
       ELSE /\ users' = [users EXCEPT ![u].plan = "premium"]
            /\ resp' = [endpoint |-> "upgrade", user |-> u, status |-> 200,
                        body |-> [success |-> TRUE, plan |-> "premium"]]
    /\ UNCHANGED <<scans, scan_cache, next_id, pc, cur, work, analyzed, made_free, fn_vars>>

Next ==
    \/ \E p \in Procs, u \in Users, img \in Images : AnalyzeStart(p, u, img)
    \/ \E p \in Procs : AnalyzeLookup(p)
    \/ \E p \in Procs : AnalyzeError(p)
    \/ \E p \in Procs : AnalyzeCacheStore(p)
    \/ \E p \in Procs : AnalyzeInsert(p)
    \/ \E p \in Procs : AnalyzeFinish(p)
    \/ \E u \in Users, scan_id \in 1..MaxScans : GetScanDetail(u, scan_id)
    \/ \E u \in Users, scan_id \in 1..MaxScans : DeleteScan(u, scan_id)
    \/ \E u \in Users, plan \in {"premium", "pro"} : UpgradeSubscription(u, plan)

Spec == Init /\ [][Next]_vars

(***************************************************************************)
(* Properties of the responses (under Spec).                               *)
(***************************************************************************)
\* The last response is a Restricted (free-plan) view of a scan
IsRestricted ==
    /\ resp.endpoint \in {"analyze", "detail"}
    /\ resp.status = 200
    /\ resp.body.locked

DetailKeys == {"severity", "description", "confidence"}

\* The stored scans the last response is a view of
ViewedScans == {i \in 1..Len(scans) : scans[i].id = resp.body.id}

\* C1: in a Restricted view of a scan with N issues, analysis.issue_count,
\* the length of analysis.issues_preview and preview.issue_count all equal N,
\* so a positive issue_count never comes with an empty issues_preview.
C1_IssueCountMatchesPreview ==
    IsRestricted =>
        /\ resp.body.analysis.issue_count = Len(resp.body.analysis.issues_preview)
        /\ resp.body.preview.issue_count = resp.body.analysis.issue_count
        /\ \A i \in ViewedScans :
               Len(scans[i].analysis.issues) = resp.body.analysis.issue_count
        /\ resp.body.analysis.issue_count > 0 => Len(resp.body.analysis.issues_preview) > 0

\* C1 witness: GET /scan/{id} returned the Restricted view of a stored scan
\* with four issues.
C1_Witness ==
    /\ IsRestricted
    /\ resp.endpoint = "detail"
    /\ \E i \in ViewedScans : Len(scans[i].analysis.issues) = 4
    /\ Len(resp.body.analysis.issues_preview) = 4

\* C2 (as claimed): a user on the free plan never has more than
\* FREE_SCAN_LIMIT analyze requests that stored a scan, under any
\* interleaving, and a rejected request gets 403 with scan_limit_reached.
C2_FreeScanLimit ==
    /\ \A u \in Users : users[u].plan = "free" => analyzed[u] <= FREE_SCAN_LIMIT
    /\ (resp.endpoint = "analyze" /\ resp.status = 403) =>
           (resp.body.error = "scan_limit_reached" /\ resp.body.upgrade_required)

C4_PreviewEntriesCarryNoDetail ==
    IsRestricted =>
        \A i \in 1..Len(resp.body.analysis.issues_preview) :
            DOMAIN resp.body.analysis.issues_preview[i] \cap DetailKeys = {}

\* C4 witness: a Restricted view with preview entries whose stored issues
\* do carry severity, description and confidence.
C4_Witness ==
    /\ IsRestricted
    /\ Len(resp.body.analysis.issues_preview) > 0
    /\ \E i \in ViewedScans : \A j \in 1..Len(scans[i].analysis.issues) :
           DetailKeys \subseteq DOMAIN scans[i].analysis.issues[j]

\* The keys found at each place of a Restricted view other than inside the
\* strengths entries
KeysOutsideStrengths ==
    DOMAIN resp.body
      \cup DOMAIN resp.body.analysis
      \cup DOMAIN resp.body.analysis.primary_concern
      \cup DOMAIN resp.body.preview
      \cup UNION {DOMAIN resp.body.analysis.issues_preview[i] :
                     i \in 1..Len(resp.body.analysis.issues_preview)}

KeysOfStrengths ==
    UNION {DOMAIN resp.body.analysis.strengths[i] : i \in 1..Len(resp.body.analysis.strengths)}

\* C5 (as claimed): no field anywhere in a Restricted view, the exposed
\* strengths entries and primary_concern included, is a severity, a
\* description or a confidence.
C5_NoDetailAnywhere ==
    IsRestricted => (KeysOutsideStrengths \cup KeysOfStrengths) \cap DetailKeys = {}

\* C5 (amended): outside the exposed strengths entries no field of a
\* Restricted view is a severity, a description or a confidence, and
\* primary_concern has exactly name and why_this_result; each exposed
\* strengths entry is the stored one, with its description and confidence.
C5_NoDetailOutsideStrengths ==
    IsRestricted =>
        /\ KeysOutsideStrengths \cap DetailKeys = {}
        /\ DOMAIN resp.body.analysis.primary_concern = {"name", "why_this_result"}
        /\ \A i \in ViewedScans :
               resp.body.analysis.strengths = Take(scans[i].analysis.strengths, 2)
        /\ \A i \in 1..Len(resp.body.analysis.strengths) :
               DOMAIN resp.body.analysis.strengths[i] = {"name", "description", "confidence"}

\* C5 witness: a Restricted view of a stored scan whose primary_concern has
\* a severity and that exposes two strengths.
C5_Witness ==
    /\ IsRestricted
    /\ Len(resp.body.analysis.strengths) = 2
    /\ \E i \in ViewedScans : "severity" \in DOMAIN scans[i].analysis.primary_concern

MaxIssues == 2
MaxSeverityIn == 10

\* "Acne-Redness" contains the keys acne and redness once lower-cased, "Fine
\* Line" is contained in the key fine_lines once lower-cased and underscored,
\* "zits" matches no key.
ScoreNames ==
    { <<"A", "c", "n", "e", "-", "R", "e", "d", "n", "e", "s", "s">>,
      <<"F", "i", "n", "e", " ", "L", "i", "n", "e">>,
      <<"z", "i", "t", "s">> }

ScoreIssues == [name : ScoreNames, severity : 0..MaxSeverityIn]

ScoreIssueLists == UNION {[1..n -> ScoreIssues] : n \in 0..MaxIssues}

AllMetrics(v) == [m \in DOMAIN metric_weights |-> v]

ScoreMetricsInputs ==
    { NoMetrics, AllMetrics(100), AllMetrics(90), AllMetrics(86), AllMetrics(85),
      AllMetrics(50), AllMetrics(0),
      [m \in {"tone_uniformity", "pore_visibility"} |->
          IF m = "tone_uniformity" THEN 91 ELSE 80] }

NoResult == [score |-> -1]

InitScore ==
    /\ sc_in \in [issues : ScoreIssueLists, metrics : ScoreMetricsInputs]
    /\ sc_out = NoResult
    /\ users = [u \in Users |-> [plan |-> "free", scan_count |-> 0]]
    /\ scans = <<>>
    /\ scan_cache = [img \in Images |-> NoEntry]
    /\ next_id = 1
    /\ pc = [p \in Procs |-> "idle"]
    /\ cur = [p \in Procs |-> Idle]
    /\ work = [p \in Procs |-> Idle]
    /\ resp = NoResponse
    /\ analyzed = [u \in Users |-> 0]
    /\ made_free = {}
    /\ va_in = Unparseable
    /\ va_out = NoOutput
    /\ di_in = NoDietInput
    /\ di_out = NoOutput

CalculateScore ==
    /\ sc_out = NoResult
    /\ sc_out' = calculate_deterministic_score(sc_in.issues, sc_in.metrics)
    /\ UNCHANGED <<sc_in, va_in, va_out, di_in, di_out, handler_vars>>

NextScore == CalculateScore

SpecScore == InitScore /\ [][NextScore]_vars

(***************************************************************************)
(* Properties of calculate_deterministic_score (under SpecScore).          *)
(***************************************************************************)
ScoreDone == sc_out # NoResult

\* C7: whatever the metrics, the score is at most 74 when the maximum issue
\* severity is 7 or more, and at most 79 when it is 5 or more.
C7_SeverityCaps ==
    ScoreDone =>
        /\ MaxSeverity(sc_in.issues) >= 7 => sc_out.score <= 74
        /\ MaxSeverity(sc_in.issues) >= 5 => sc_out.score <= 79

\* C7 witness: all metrics are 100, one issue of severity 8, and the score
\* is exactly the cap.
C7_Witness ==
    /\ ScoreDone
    /\ sc_in.metrics = AllMetrics(100)
    /\ Len(sc_in.issues) = 1
    /\ sc_in.issues[1].severity = 8
    /\ sc_out.score = 74

\* The issue list with the severity of issue i replaced by s
WithSeverity(issues, i, s) == [issues EXCEPT ![i].severity = s]

\* C8 (as claimed): raising the severity of one issue within 0..10, all else
\* unchanged, never yields a higher final score.
C8_MonotoneInSeverity ==
    ScoreDone =>
        \A i \in 1..Len(sc_in.issues) : \A s \in 0..10 :
            s > sc_in.issues[i].severity =>
                calculate_deterministic_score(WithSeverity(sc_in.issues, i, s),
                                              sc_in.metrics).score <= sc_out.score

\* C9 (as claimed): a final score of 85 or more only if the maximum severity
\* is at most 1 and total_deduction < 5.
C9_EliteOnlyIfAllowed ==
    (ScoreDone /\ sc_out.score >= 85) =>
        /\ MaxSeverity(sc_in.issues) <= 1
        /\ TotalDeduction100(sc_in.issues) < 500

\* C10 (as claimed): a final score of 90 or more, hence the label
\* 'excellent', only if the maximum severity is 0 and total_deduction < 2.
C10_ExcellentOnlyIfAllowed ==
    (ScoreDone /\ (sc_out.score >= 90 \/ sc_out.label = "excellent")) =>
        /\ MaxSeverity(sc_in.issues) = 0
        /\ TotalDeduction100(sc_in.issues) < 200

\* C11: the score is an integer in 0..100 and the label is the band that
\* contains it: 0..39 needs_care, 40..59 needs_attention, 60..74 average,
\* 75..89 good, 90..100 excellent; 'unknown' is never returned.
C11_ScoreInRangeAndBanded ==
    ScoreDone =>
        /\ sc_out.score \in 0..100
        /\ sc_out.label # "unknown"
        /\ sc_out.label = (CASE sc_out.score <= 39 -> "needs_care"
                             [] sc_out.score \in 40..59 -> "needs_attention"
                             [] sc_out.score \in 60..74 -> "average"
                             [] sc_out.score \in 75..89 -> "good"
                             [] sc_out.score >= 90 -> "excellent")

\* C11 witness: all metrics are 0 and an issue is deducted, so that the
\* preliminary score is negative, and the result is 0 'needs_care'.
C11_Witness ==
    /\ ScoreDone
    /\ sc_in.metrics = AllMetrics(0)
    /\ TotalDeduction100(sc_in.issues) > 0
    /\ sc_out.score = 0
    /\ sc_out.label = "needs_care"

RECURSIVE SumSeq(_)
SumSeq(q) == IF q = <<>> THEN 0 ELSE Head(q) + SumSeq(Tail(q))

\* The weight of the normalised name n when Hit(key, n) tells which table
\* entries match: that of the first matching entry, 3 when there is none
FirstHitWeight(Hit(_, _), n) ==
    LET hits == {i \in 1..Len(ISSUE_WEIGHTS) : Hit(ISSUE_WEIGHTS[i].key, n)}
    IN  IF hits = {} THEN 3
        ELSE ISSUE_WEIGHTS[CHOOSE i \in hits : \A j \in hits : i <= j].w

KeyInName(key, n) == Contains(key, n)
KeyInNameOrNameInKey(key, n) == Contains(key, n) \/ Contains(n, key)

\* The weights of the names of ScoreNames under the two readings
WeightsByKeyInName ==
    [name \in ScoreNames |-> FirstHitWeight(KeyInName, NormalizedIssueName(name))]
WeightsByEitherContainment ==
    [name \in ScoreNames |-> FirstHitWeight(KeyInNameOrNameInKey, NormalizedIssueName(name))]

\* total_deduction (in hundredths) is the sum of severity * weight * 0.12
\* over the issues, the severity taken within 0..10
DeductionsBy(weights) ==
    sc_out.total_deduction100 =
        SumSeq([i \in 1..Len(sc_in.issues) |->
                   Min2(10, Max2(0, sc_in.issues[i].severity)) * weights[sc_in.issues[i].name] * 12])

\* C25 (as claimed): the weight of an issue is that of the first key that is
\* a substring of its normalised name, and 3 when no key is a substring of
\* the name; the deduction is severity * weight * 0.12.
C25_WeightByKeyInName == ScoreDone => DeductionsBy(WeightsByKeyInName)

\* C25 (amended): the weight is that of the first key that is a substring of
\* the normalised name or of which the normalised name is a substring, and
\* 3 when there is no such key.
C25_WeightByEitherContainment == ScoreDone => DeductionsBy(WeightsByEitherContainment)

\* C25 witness: "Acne-Redness" contains acne (6) before redness (4) and
\* "Fine Line" is contained in fine_lines (2); with severity 5 each the
\* total deduction is (6 + 2) * 5 * 0.12 = 4.8.
C25_Witness ==
    /\ ScoreDone
    /\ Len(sc_in.issues) = 2
    /\ NormalizedIssueName(sc_in.issues[1].name) =
           <<"a", "c", "n", "e", "_", "r", "e", "d", "n", "e", "s", "s">>
    /\ NormalizedIssueName(sc_in.issues[2].name) = <<"f", "i", "n", "e", "_", "l", "i", "n", "e">>
    /\ sc_in.issues[1].severity = 5
    /\ sc_in.issues[2].severity = 5
    /\ sc_out.total_deduction100 = (6 + 2) * 5 * 12

(***************************************************************************)
(* Validation specification: the raw report is drawn in the initial state  *)
(* and Validate applies validate_ai_response to it.                        *)
(***************************************************************************)
MaxRawIssues == 2

sAcne           == <<"A", "c", "n", "e">>
sAcneLower      == <<"a", "c", "n", "e">>
sRedness        == <<"R", "e", "d", "n", "e", "s", "s">>
sDryness        == <<"D", "r", "y", "n", "e", "s", "s">>

\* A key the report does not have
Absent == [t |-> "absent"]

\* The report with the keys of f whose value is not Absent
Report(f) == [k \in {x \in DOMAIN f : f[x] # Absent} |-> f[k]]

\* Entries the vision model may put in its issues list: well-formed ones, two
\* names that differ in case only, a catalog name, values outside their
\* ranges or of the wrong type, an entry without a name, and a non-dict.
RawIssueValues ==
    { JDict([name |-> JStr(sAcne), severity |-> JNum(750), confidence |-> JNum(90),
             priority |-> JStr("primary")]),
      JDict([name |-> JStr(sAcneLower), severity |-> JNum(200)]),
      JDict([name |-> JStr(sPoreRefinement), severity |-> JNum(1500), confidence |-> JNum(30)]),
      JDict([name |-> JStr(sRedness), severity |-> JStr("high"), confidence |-> JNum(120)]),
      JDict([name |-> JStr(sDryness), severity |-> JNum(-300), confidence |-> JNum(-50),
             priority |-> JStr("primary")]),
      JDict([severity |-> JNum(300)]),
      JStr("oops") }

RawIssueLists == UNION {[1..n -> RawIssueValues] : n \in 0..MaxRawIssues}

RawStrength(name) == JDict([name |-> JStr(name), description |-> JStr("Looks good"),
                            confidence |-> JNum(20)])

RawSkinTypes == { Absent, JStr(<<"D", "r", "y">>), JStr(<<"s", "h", "i", "n", "y">>), JNum(300), JNull }

RawMetricsValues ==
    { Absent, RawMetrics(90), JNull,
      JDict([tone_uniformity |-> JDict([score |-> JNum(15000)]),
             redness_level   |-> JDict([score |-> JStr("low")])]) }

RawStrengthsValues ==
    { Absent, JNull, JList(<<>>),
      JList(<< RawStrength(sNaturalSkinResilience), JDict([description |-> JStr("nameless")]) >>),
      JList(<< RawStrength(<<"a">>), RawStrength(<<"b">>), RawStrength(<<"c">>),
               RawStrength(<<"d">>), RawStrength(<<"e">>) >>) }

RawIssuesValues == {Absent, JNull} \cup {JList(l) : l \in RawIssueLists}

RawPrimaryValues ==
    { Absent,
      JDict([name |-> JStr(sRedness), severity |-> JNum(400)]),
      JDict([name |-> JStr(sRedness), severity |-> JStr("high")]) }

RawReports ==
    { Report([skin_type |-> st, skin_metrics |-> sm, strengths |-> ss, issues |-> is,
              primary_concern |-> pcn]) :
        st \in RawSkinTypes, sm \in RawMetricsValues, ss \in RawStrengthsValues,
        is \in RawIssuesValues, pcn \in RawPrimaryValues }

\* validate_ai_response raised an exception
Raised == [status |-> "raised"]

InitValidate ==
    /\ va_in \in RawReports
    /\ va_out = NoOutput
    /\ users = [u \in Users |-> [plan |-> "free", scan_count |-> 0]]
    /\ scans = <<>>
    /\ scan_cache = [img \in Images |-> NoEntry]
    /\ next_id = 1
    /\ pc = [p \in Procs |-> "idle"]
    /\ cur = [p \in Procs |-> Idle]
    /\ work = [p \in Procs |-> Idle]
    /\ resp = NoResponse
    /\ analyzed = [u \in Users |-> 0]
    /\ made_free = {}
    /\ sc_in = [issues |-> <<>>, metrics |-> NoMetrics]
    /\ sc_out = NoResult
    /\ di_in = NoDietInput
    /\ di_out = NoOutput

Validate ==
    /\ va_out = NoOutput
    /\ va_out' = IF ValidateRaises(va_in)
                 THEN Raised
                 ELSE [status |-> "ok", analysis |-> validate_ai_response(va_in)]
    /\ UNCHANGED <<va_in, sc_in, sc_out, di_in, di_out, handler_vars>>

NextValidate == Validate

SpecValidate == InitValidate /\ [][NextValidate]_vars

(***************************************************************************)
(* Properties of validate_ai_response (under SpecValidate).                *)
(***************************************************************************)
Validated == va_out.status = "ok"

\* The entries of the raw issues list that survive validation: the dicts
\* with a non-empty name
RawSurvivors ==
    LET raw == Get(va_in, "issues", JList(<<>>))
    IN  IF raw.t = "list"
        THEN SelectSeq(raw.v, LAMBDA e : e.t = "dict" /\ "name" \in DOMAIN e.v
                                          /\ e.v["name"].t = "str" /\ Len(e.v["name"].v) > 0)
        ELSE <<>>

PaddingWhy == "Based on general skin health optimization principles"

\* C12 (as claimed): validate_ai_response returns an Analysis, without
\* raising, for every report, whatever the types of its fields.
C12_NeverRaises == va_out # Raised

\* The catalog positions whose name is not that of a surviving raw issue
FreeCatalogEntries ==
    {i \in 1..Len(UNIVERSAL_OPTIMIZATION_ISSUES) :
        \A j \in 1..Len(RawSurvivors) :
            Lower(RawSurvivors[j].v["name"].v) # Lower(UNIVERSAL_OPTIMIZATION_ISSUES[i].name)}

\* C13: the returned issues list has at least 3 entries; when n < 3 raw
\* issues survive, exactly the first 3 - n catalog entries whose name is not
\* yet present are appended, and the catalog always has that many.
C13_AtLeastThreeIssues ==
    Validated =>
        LET n      == Len(RawSurvivors)
            need   == IF n < 3 THEN 3 - n ELSE 0
            issues == va_out.analysis.issues
            padded == {i \in 1..Len(issues) : issues[i].why_this_result = PaddingWhy}
            first  == {i \in FreeCatalogEntries :
                          Cardinality({j \in FreeCatalogEntries : j < i}) < need}
        IN  /\ Len(issues) >= 3
            /\ Len(issues) = n + need
            /\ Cardinality(FreeCatalogEntries) >= need
            /\ Cardinality(padded) = need
            /\ {issues[i].name : i \in padded} =
                   {UNIVERSAL_OPTIMIZATION_ISSUES[i].name : i \in first}

\* C13 witness: one raw issue survives and has the name of the second
\* catalog entry, so the first and the third catalog entries are appended.
C13_Witness ==
    /\ Validated
    /\ Len(RawSurvivors) = 1
    /\ RawSurvivors[1].v["name"].v = sPoreRefinement
    /\ {va_out.analysis.issues[i].name : i \in 1..Len(va_out.analysis.issues)} =
           {sPoreRefinement, sHydrationOptimization, sSkinBarrierHealth}

\* C14 (as claimed): no two entries of the returned issues list have the
\* same name, compared case-insensitively.
C14_NoDuplicateNames ==
    Validated =>
        \A i, j \in 1..Len(va_out.analysis.issues) :
            i # j => Lower(va_out.analysis.issues[i].name) # Lower(va_out.analysis.issues[j].name)

\* C15: every returned issue has a severity in 1..10 and a confidence in
\* 0.5..1 (50..100 hundredths).
C15_IssueBounds ==
    Validated =>
        \A i \in 1..Len(va_out.analysis.issues) :
            /\ va_out.analysis.issues[i].severity \in 1..10
            /\ va_out.analysis.issues[i].confidence \in 50..100

\* C15 witness: raw issues with severity 15 and confidence 0.3, and with
\* severity -3 and confidence -0.5, come out as 10 / 0.5 and 1 / 0.5.
C15_Witness ==
    /\ Validated
    /\ Len(RawSurvivors) = 2
    /\ RawSurvivors[1].v["severity"] = JNum(1500)
    /\ RawSurvivors[2].v["severity"] = JNum(-300)
    /\ \E i, j \in 1..Len(va_out.analysis.issues) :
           /\ va_out.analysis.issues[i].name = sPoreRefinement
           /\ va_out.analysis.issues[i].severity = 10
           /\ va_out.analysis.issues[i].confidence = 50
           /\ va_out.analysis.issues[j].name = sDryness
           /\ va_out.analysis.issues[j].severity = 1
           /\ va_out.analysis.issues[j].confidence = 50

\* The names of the raw strengths that are kept: the dicts with a non-empty name
RawStrengthNames ==
    LET raw  == Get(va_in, "strengths", JList(<<>>))
        kept == IF raw.t = "list"
                THEN SelectSeq(raw.v, LAMBDA e : e.t = "dict" /\ "name" \in DOMAIN e.v
                                                  /\ e.v["name"].t = "str" /\ Len(e.v["name"].v) > 0)
                ELSE <<>>
    IN  [i \in 1..Len(kept) |-> kept[i].v["name"].v]

\* C16: the returned strengths list has 2 to 4 entries: the kept raw
\* entries in order, then the default strengths in their order, skipping a
\* name already present, until there are 2; at most the first 4 are returned.
C16_StrengthsTwoToFour ==
    Validated =>
        LET k     == Len(RawStrengthNames)
            names == [i \in 1..Len(va_out.analysis.strengths) |-> va_out.analysis.strengths[i].name]
        IN  /\ Len(names) \in 2..4
            /\ k >= 2 => names = SubSeq(RawStrengthNames, 1, Min2(4, k))
            /\ k = 1 => names = <<RawStrengthNames[1],
                                  IF Lower(RawStrengthNames[1]) = Lower(sNaturalSkinResilience)
                                  THEN sEvenFacialStructure ELSE sNaturalSkinResilience>>
            /\ k = 0 => names = <<sNaturalSkinResilience, sEvenFacialStructure>>

\* C16 witness: the one kept raw strength has the name of the first default,
\* so only the second default is appended.
C16_Witness ==
    /\ Validated
    /\ RawStrengthNames = <<sNaturalSkinResilience>>
    /\ Len(va_out.analysis.strengths) = 2
    /\ va_out.analysis.strengths[1].description = "Looks good"
    /\ va_out.analysis.strengths[2].name = sEvenFacialStructure

(***************************************************************************)
(* Diet specification: skin_type and issues are drawn in the initial       *)
(* state and GenerateDiet applies generate_diet_recommendations.           *)
(***************************************************************************)
MaxDietIssues == 2

\* "Acne", "Acne scars", "Dry patches", "Redness", "Dark spots",
\* "Fine lines", "Large pores", "Oiliness"
sDehydration == <<"d", "e", "h", "y", "d", "r", "a", "t", "i", "o", "n">>

DietIssueNames ==
    { sAcne,
      sDehydration,
      <<"A", "c", "n", "e", " ", "s", "c", "a", "r", "s">>,
      <<"D", "r", "y", " ", "p", "a", "t", "c", "h", "e", "s">>,
      sRedness,
      <<"D", "a", "r", "k", " ", "s", "p", "o", "t", "s">>,
      <<"F", "i", "n", "e", " ", "l", "i", "n", "e", "s">>,
      <<"L", "a", "r", "g", "e", " ", "p", "o", "r", "e", "s">>,
      <<"O", "i", "l", "i", "n", "e", "s", "s">> }

\* one severity below and one above the thresholds of the rules (3 and 4)
DietSeverities == {2, 6}

DietIssues == [name : DietIssueNames, severity : DietSeverities]

DietIssueLists == UNION {[1..n -> DietIssues] : n \in 0..MaxDietIssues}

InitDiet ==
    /\ di_in \in [skin_type : valid_skin_types, issues : DietIssueLists]
    /\ di_out = NoOutput
    /\ users = [u \in Users |-> [plan |-> "free", scan_count |-> 0]]
    /\ scans = <<>>
    /\ scan_cache = [img \in Images |-> NoEntry]
    /\ next_id = 1
    /\ pc = [p \in Procs |-> "idle"]
    /\ cur = [p \in Procs |-> Idle]
    /\ work = [p \in Procs |-> Idle]
    /\ resp = NoResponse
    /\ analyzed = [u \in Users |-> 0]
    /\ made_free = {}
    /\ sc_in = [issues |-> <<>>, metrics |-> NoMetrics]
    /\ sc_out = NoResult
    /\ va_in = Unparseable
    /\ va_out = NoOutput

GenerateDiet ==
    /\ di_out = NoOutput
    /\ \E plan \in generate_diet_recommendations(di_in.skin_type, di_in.issues) :
           di_out' = [status |-> "ok", plan |-> plan]
    /\ UNCHANGED <<di_in, sc_in, sc_out, va_in, va_out, handler_vars>>

NextDiet == GenerateDiet

SpecDiet == InitDiet /\ [][NextDiet]_vars

(***************************************************************************)
(* Properties of generate_diet_recommendations (under SpecDiet).           *)
(***************************************************************************)
DietDone == di_out.status = "ok"

NoRepeatedName(items) ==
    \A i, j \in 1..Len(items) : i # j => items[i].name # items[j].name

\* C17: at most 8 eat_more, 6 avoid and 4 supplements_optional items, one
\* hydration_tip that is an entry of HYDRATION_TIPS, and no name twice in
\* any of the three lists.
C17_DietBounds ==
    DietDone =>
        /\ Len(di_out.plan.eat_more) <= 8
        /\ Len(di_out.plan.avoid) <= 6
        /\ Len(di_out.plan.supplements_optional) <= 4
        /\ di_out.plan.hydration_tip \in {HYDRATION_TIPS[k] : k \in DOMAIN HYDRATION_TIPS}
        /\ NoRepeatedName(di_out.plan.eat_more)
        /\ NoRepeatedName(di_out.plan.avoid)
        /\ NoRepeatedName(di_out.plan.supplements_optional)

\* C17 witness: dry skin with severe acne and severe redness: the rules
\* select the same items several times and more than the caps allow, and the
\* three lists come out full.
C17_Witness ==
    /\ DietDone
    /\ di_in.skin_type = sDry
    /\ di_in.issues = <<[name |-> sAcne, severity |-> 6], [name |-> sRedness, severity |-> 6]>>
    /\ Len(di_out.plan.eat_more) = 8
    /\ Len(di_out.plan.avoid) = 6
    /\ Len(di_out.plan.supplements_optional) >= 3

\* Some issue name contains one of the keywords
NamesAny(keywords) ==
    \E i \in 1..Len(di_in.issues) : \E k \in 1..Len(keywords) :
        Contains(keywords[k], Lower(di_in.issues[i].name))

\* C18 (as claimed): the hydration tip follows the precedence dry skin or a
\* dehydration issue, then oily skin, then an acne issue, then sensitive
\* skin or a redness issue, then general; so dry skin always gets dry_skin.
C18_HydrationPrecedence ==
    DietDone =>
        di_out.plan.hydration_tip =
            (IF di_in.skin_type = sDry \/ NamesAny(DehydrationKeywords) THEN HYDRATION_TIPS.dry_skin
             ELSE IF di_in.skin_type = sOily THEN HYDRATION_TIPS.oily_skin
             ELSE IF NamesAny(AcneKeywords) THEN HYDRATION_TIPS.acne
             ELSE IF di_in.skin_type = sSensitive \/ NamesAny(RednessKeywords)
                  THEN HYDRATION_TIPS.sensitive
             ELSE HYDRATION_TIPS.general)

\* C19 (as claimed): the plan is a function of skin_type and issues: the
\* order in which the set of issue names is iterated makes no difference.
C19_DietDeterministic ==
    DietDone =>
        Cardinality(generate_diet_recommendations(di_in.skin_type, di_in.issues)) = 1

\* C22: for dry skin with the one issue 'dehydration' of severity 6 the tip
\* is HYDRATION_TIPS['dry_skin'], and eat_more is the vitamin-E items, then
\* the first two omega-3 items, then hydrating items in catalog order, with
\* no backfill (antioxidant) item.
C22_DryDehydrationScenario ==
    (DietDone /\ di_in.skin_type = sDry
              /\ di_in.issues = <<[name |-> sDehydration, severity |-> 6]>>) =>
        /\ di_out.plan.hydration_tip = HYDRATION_TIPS.dry_skin
        /\ di_out.plan.eat_more =
               FOODS_DATABASE.vitamin_e_rich \o SubSeq(FOODS_DATABASE.omega_3_rich, 1, 2)
                   \o SubSeq(FOODS_DATABASE.hydrating_foods, 1, 3)
        /\ \A i \in 1..Len(di_out.plan.eat_more) :
               \A j \in 1..Len(FOODS_DATABASE.antioxidant_rich) :
                   di_out.plan.eat_more[i] # FOODS_DATABASE.antioxidant_rich[j]

\* C22 witness: the scenario has run and eat_more is full, from Almonds to
\* Celery.
C22_Witness ==
    /\ DietDone
    /\ di_in.skin_type = sDry
    /\ di_in.issues = <<[name |-> sDehydration, severity |-> 6]>>
    /\ Len(di_out.plan.eat_more) = 8
    /\ di_out.plan.eat_more[1].name = "Almonds"
    /\ di_out.plan.eat_more[8].name = "Celery"

\* out starts with the rules' items (first occurrence of each, up to the
\* cap), and whatever follows them is a general item of the backfill
RuleItemsFirst(out, rule, general, cap) ==
    LET r == SubSeq(dedupe(rule), 1, Min2(cap, Len(dedupe(rule))))
    IN  /\ Len(out) >= Len(r)
        /\ SubSeq(out, 1, Len(r)) = r
        /\ \A i \in (Len(r) + 1)..Len(out) : \E j \in 1..Len(general) : out[i] = general[j]

\* C29: the plan has at least 3 eat_more, 2 avoid and 2 supplements_optional
\* items after backfill and de-duplication, and in each list the backfill
\* items come after all items the rules selected.
C29_DietMinimums ==
    DietDone =>
        /\ Len(di_out.plan.eat_more) >= 3
        /\ Len(di_out.plan.avoid) >= 2
        /\ Len(di_out.plan.supplements_optional) >= 2
        /\ \E f \in HasIssueResults(di_in.issues) :
               /\ di_out.plan = DietPlanFor(di_in.skin_type, f[1], f[2], f[3], f[4], f[5], f[6])
               /\ RuleItemsFirst(di_out.plan.eat_more,
                                 RuleEatMore(di_in.skin_type, f[1], f[2], f[3], f[4], f[5], f[6]),
                                 GeneralEatMore, MaxEatMore)
               /\ RuleItemsFirst(di_out.plan.avoid,
                                 RuleAvoid(di_in.skin_type, f[1], f[2], f[3], f[4], f[5], f[6]),
                                 GeneralAvoid, MaxAvoid)
               /\ RuleItemsFirst(di_out.plan.supplements_optional,
                                 RuleSupplements(di_in.skin_type, f[1], f[2], f[3], f[4], f[5], f[6]),
                                 GeneralSupplements, MaxSupplements)

\* C29 witness: normal skin with mild acne: the rules select two eat_more
\* items, one avoid item and no supplement, all three lists are backfilled,
\* the rules' items stay in front and the backfill item the rules had
\* selected already (berries, sugary foods) is not repeated.
C29_Witness ==
    /\ DietDone
    /\ di_in.skin_type = sNormal
    /\ di_in.issues = <<[name |-> sAcne, severity |-> 2]>>
    /\ di_out.plan.eat_more =
           <<FOODS_DATABASE.zinc_rich[1], FOODS_DATABASE.antioxidant_rich[1],
             FOODS_DATABASE.antioxidant_rich[2], FOODS_DATABASE.hydrating_foods[1]>>
    /\ di_out.plan.avoid = <<FOODS_TO_AVOID.high_sugar[1], FOODS_TO_AVOID.processed_foods[1]>>
    /\ di_out.plan.supplements_optional = GeneralSupplements

\* <<found, severity>> if has_issue took the highest severity among all
\* issues whose name contains any of the keywords
HighestMatch(keywords) ==
    LET hits == {i \in 1..Len(di_in.issues) :
                    \E k \in 1..Len(keywords) :
                        Contains(keywords[k], Lower(di_in.issues[i].name))}
    IN  IF hits = {} THEN <<FALSE, 0>>
        ELSE <<TRUE, CHOOSE v \in {di_in.issues[i].severity : i \in hits} :
                        \A i \in hits : di_in.issues[i].severity <= v>>

\* C30 (as claimed): each severity gate is compared with the highest
\* severity among the issues whose name contains any keyword of the rule,
\* so the plan is the one these highest severities select.
C30_GateUsesMaxSeverity ==
    DietDone =>
        di_out.plan = DietPlanFor(di_in.skin_type,
                                  HighestMatch(AcneKeywords), HighestMatch(DehydrationKeywords),
                                  HighestMatch(RednessKeywords), HighestMatch(UnevenKeywords),
                                  HighestMatch(AgingKeywords), HighestMatch(PoreKeywords))

(***************************************************************************)
(* Further properties of validate_ai_response (under SpecValidate).        *)
(***************************************************************************)
\* C23 (as claimed): a raw issue supplied with a confidence below 0.5 is
\* dropped: the returned issues list has no entry made from it.
C23_LowConfidenceDropped ==
    Validated =>
        \A j \in 1..Len(RawSurvivors) :
            LET e == RawSurvivors[j].v
            IN  ("confidence" \in DOMAIN e /\ IsNumber(e["confidence"]) /\ e["confidence"].v < 50) =>
                    \A i \in 1..Len(va_out.analysis.issues) :
                        \/ va_out.analysis.issues[i].name # e["name"].v
                        \/ va_out.analysis.issues[i].why_this_result = PaddingWhy

\* C24: the returned issues are ordered by severity, highest first, and
\* among equal severities by priority rank (primary, secondary, minor);
\* padded catalog entries included, so the first entry has the maximum
\* severity.
C24_IssuesSorted ==
    Validated =>
        LET issues == va_out.analysis.issues
        IN  /\ \A i, j \in 1..Len(issues) :
                   i < j =>
                       \/ issues[i].severity > issues[j].severity
                       \/ /\ issues[i].severity = issues[j].severity
                          /\ priority_order(issues[i].priority) <= priority_order(issues[j].priority)
            /\ \A i \in 1..Len(issues) : issues[1].severity >= issues[i].severity

\* C24 witness: the raw issues are Redness then Dryness, both of severity 1
\* once validated, Dryness with priority primary; the padded entry of
\* severity 2 comes first and Dryness is moved before Redness.
C24_Witness ==
    /\ Validated
    /\ Len(RawSurvivors) = 2
    /\ RawSurvivors[1].v["name"].v = sRedness
    /\ RawSurvivors[2].v["name"].v = sDryness
    /\ Len(va_out.analysis.issues) = 3
    /\ va_out.analysis.issues[1].why_this_result = PaddingWhy
    /\ va_out.analysis.issues[2].name = sDryness
    /\ va_out.analysis.issues[3].name = sRedness

\* The report has a primary_concern that validate_ai_response takes over: a
\* dict with a non-empty name
SuppliesPrimary ==
    /\ "primary_concern" \in DOMAIN va_in
    /\ va_in["primary_concern"].t = "dict"
    /\ "name" \in DOMAIN va_in["primary_concern"].v
    /\ Truthy(va_in["primary_concern"].v["name"])

\* C27 (as claimed): the primary_concern of the returned Analysis has the
\* name of an issue of its issues list, also when the report supplies its
\* own primary_concern.
C27_PrimaryNamesAnIssue ==
    Validated =>
        \E i \in 1..Len(va_out.analysis.issues) :
            va_out.analysis.issues[i].name = va_out.analysis.primary_concern.name

\* C27 (amended): without a supplied primary_concern, the primary_concern is
\* the first (highest-severity) issue of the list; a supplied one is taken
\* over with its own name, whether or not an issue has that name.
C27_PrimaryIsTopOrSupplied ==
    Validated =>
        IF SuppliesPrimary
        THEN va_out.analysis.primary_concern.name = va_in["primary_concern"].v["name"].v
        ELSE /\ va_out.analysis.primary_concern.name = va_out.analysis.issues[1].name
             /\ va_out.analysis.primary_concern.severity = va_out.analysis.issues[1].severity

\* C27 witness: the report names Redness as its primary concern and has no
\* issue of that name; the Analysis keeps Redness as primary_concern.
C27_Witness ==
    /\ Validated
    /\ SuppliesPrimary
    /\ va_out.analysis.primary_concern.name = sRedness
    /\ \A i \in 1..Len(va_out.analysis.issues) : va_out.analysis.issues[i].name # sRedness

(***************************************************************************)
(* The pipeline validate_ai_response, then calculate_deterministic_score   *)
(* (under SpecValidate).                                                   *)
(***************************************************************************)
\* The raw report has the key k with the value v
RawHas(k, v) == k \in DOMAIN va_in /\ va_in[k] = v

UniversalNames ==
    {UNIVERSAL_OPTIMIZATION_ISSUES[i].name : i \in 1..Len(UNIVERSAL_OPTIMIZATION_ISSUES)}

\* C21: a report with an empty issues list and all five metrics at 90 is
\* normalised to exactly 3 universal-optimization issues of severity <= 2,
\* and the score of that Analysis is in 75..84 with the label 'good'.
C21_ClearSkinPipeline ==
    (Validated /\ RawHas("issues", JList(<<>>)) /\ RawHas("skin_metrics", RawMetrics(90))) =>
        LET a == va_out.analysis
            s == calculate_deterministic_score(a.issues, a.skin_metrics)
        IN  /\ Len(a.issues) = 3
            /\ \A i \in 1..3 : a.issues[i].name \in UniversalNames /\ a.issues[i].severity <= 2
            /\ s.score \in 75..84
            /\ s.label = "good"

\* C21 witness: such a report is validated, every metric of the Analysis is
\* 90, and the elite cap brings the score to 84.
C21_Witness ==
    /\ Validated
    /\ RawHas("issues", JList(<<>>))
    /\ RawHas("skin_metrics", RawMetrics(90))
    /\ \A m \in DOMAIN va_out.analysis.skin_metrics : va_out.analysis.skin_metrics[m] = 90
    /\ calculate_deterministic_score(va_out.analysis.issues,
                                     va_out.analysis.skin_metrics).score = 84

(***************************************************************************)
(* Routine progress: validate_routine_response and POST                    *)
(* /routine/complete-step.  The handler awaits db.scans.find_one and       *)
(* db.scans.update_one; other requests run between the two, so it is one   *)
(* action per database call.                                               *)
(***************************************************************************)
\* The steps of one routine list as validate_routine_response keeps them
\* (lines 1552-1574): raw steps without a step_name are dropped; `order` is
\* the raw step's own or its position in the raw list; `locked` is idx > 0
\* for the position idx of the step in the raw list.
ValidatedSteps(raw) ==
    LET kept == {i \in 1..Len(raw) : "step_name" \in DOMAIN raw[i]}
        Kth(k) == CHOOSE i \in kept : Cardinality({j \in kept : j < i}) = k - 1
    IN  [k \in 1..Cardinality(kept) |->
            [order     |-> IF "order" \in DOMAIN raw[Kth(k)] THEN raw[Kth(k)].order ELSE Kth(k),
             locked    |-> Kth(k) > 1,
             completed |-> FALSE]]

\* validate_routine_response(result): the fallback when no morning step is kept
validate_routine_response(result) ==
    IF Len(ValidatedSteps(result.morning_routine)) = 0
    THEN [morning_routine |-> get_fallback_routine.morning_routine,
          evening_routine |-> get_fallback_routine.evening_routine,
          weekly_routine  |-> get_fallback_routine.weekly_routine]
    ELSE [morning_routine |-> ValidatedSteps(result.morning_routine),
          evening_routine |-> ValidatedSteps(result.evening_routine),
          weekly_routine  |-> ValidatedSteps(result.weekly_routine)]

\* Raw steps of the language model: with a name, with a name and its own
\* order, without a name
StepNamed      == [step_name |-> "Cleanser"]
StepNamedFirst == [step_name |-> "Serum", order |-> 1]
StepUnnamed    == [instructions |-> "Apply gently"]

\* Raw routines: three well-formed lists; a morning list whose first step
\* has no name and an evening list with the order 1 twice.  (The lists of
\* the fallback routine are those of a well-formed raw list of 4, 4 and 2
\* steps.)
RawRoutines ==
    { [morning_routine |-> <<StepNamed, StepNamed, StepNamed>>,
       evening_routine |-> <<StepNamed, StepNamed>>,
       weekly_routine  |-> <<>>],
      [morning_routine |-> <<StepUnnamed, StepNamed, StepNamed>>,
       evening_routine |-> <<StepNamedFirst, StepNamedFirst>>,
       weekly_routine  |-> <<StepNamed>>] }

\* The stored scan of a user whose photo could not be analysed, with the
\* given routine
RoutineScan(u, routine) ==
    [id           |-> 1,
     user_id      |-> u,
     image_base64 |-> "img1",
     image_hash   |-> "img1",
     analysis     |-> get_fallback_analysis,
     score_data   |-> calculate_deterministic_score(get_fallback_analysis.issues,
                                                    get_fallback_analysis.skin_metrics),
     routine      |-> routine,
     products     |-> <<"serum">>,
     diet_recommendations |->
         CHOOSE d \in generate_diet_recommendations(get_fallback_analysis.skin_type,
                                                    get_fallback_analysis.issues) : TRUE,
     created_at   |-> "utcnow"]

RoutineTypes == {"morning_routine", "evening_routine", "weekly_routine"}
MaxStepOrder == 3

\* RoutineStepUpdate
Requests ==
    [scan_id : 1..MaxScans, routine_type : RoutineTypes, step_order : 1..MaxStepOrder,
     completed : BOOLEAN]

\* UpdatedSteps that leaves the later steps alone when a step is un-completed
UpdatedSteps_NoRelock(routine_steps, step_index, completed) ==
    [i \in 1..Len(routine_steps) |->
        IF i = step_index THEN [routine_steps[i] EXCEPT !.completed = completed]
        ELSE IF completed /\ i = step_index + 1 THEN [routine_steps[i] EXCEPT !.locked = FALSE]
        ELSE routine_steps[i]]

\* routine_steps after lines 2202-2213 (step_index counted from 1)
UpdatedSteps(routine_steps, step_index, completed) ==
    [i \in 1..Len(routine_steps) |->
        IF i = step_index THEN [routine_steps[i] EXCEPT !.completed = completed]
        ELSE IF completed /\ i = step_index + 1 THEN [routine_steps[i] EXCEPT !.locked = FALSE]
        ELSE IF ~completed /\ i > step_index
             THEN [routine_steps[i] EXCEPT !.locked = TRUE, !.completed = FALSE]
        ELSE routine_steps[i]]

\* HTTPException(status_code, detail)
StepError(u, status, detail) ==
    [endpoint |-> "complete_step", user |-> u, status |-> status, detail |-> detail]

\* The plan check, db.scans.find_one and the checks and changes made on the
\* scan that was read (lines 2166-2213)
CompleteStepFind(p, u, request) ==
    /\ pc[p] = "idle"
    /\ IF users[u].plan # "premium"
       THEN /\ resp' = StepError(u, 403, "Routine progress tracking is a Premium feature")
            /\ UNCHANGED <<pc, cur, work>>
       ELSE IF FindScan(request.scan_id, u) = {}
       THEN /\ resp' = StepError(u, 404, "Scan not found")
            /\ UNCHANGED <<pc, cur, work>>
       ELSE LET routine       == scans[SetMin(FindScan(request.scan_id, u))].routine
                routine_steps == routine[request.routine_type]
                found == {i \in 1..Len(routine_steps) :
                             routine_steps[i].order = request.step_order}
            IN  IF Len(routine_steps) = 0
                THEN /\ resp' = StepError(u, 400, "No routine found")
                     /\ UNCHANGED <<pc, cur, work>>
                ELSE IF found = {}
                THEN /\ resp' = StepError(u, 404, "Step not found")
                     /\ UNCHANGED <<pc, cur, work>>
                ELSE IF routine_steps[SetMin(found)].locked
                THEN /\ resp' = StepError(u, 400, "Cannot complete a locked step")
                     /\ UNCHANGED <<pc, cur, work>>
                ELSE /\ pc' = [pc EXCEPT ![p] = "set_routine"]
                     /\ cur' = [cur EXCEPT ![p] = [id |-> u, plan |-> users[u].plan,
                                                   scan_count |-> users[u].scan_count]]
                     /\ work' = [work EXCEPT ![p] =
                                    [request    |-> request,
                                     step_index |-> SetMin(found),
                                     routine    |-> [routine EXCEPT ![request.routine_type] =
                                                        UpdatedSteps(routine_steps, SetMin(found),
                                                                     request.completed)]]]
                     /\ UNCHANGED resp
    /\ UNCHANGED <<users, scans, scan_cache, next_id, analyzed, made_free, fn_vars>>

\* db.scans.update_one({'$set': {'routine': routine}}) and the response
\* (lines 2216-2243)
CompleteStepUpdate(p) ==
    /\ pc[p] = "set_routine"
    /\ scans' = [i \in 1..Len(scans) |->
                    IF scans[i].id = work[p].request.scan_id /\ scans[i].user_id = cur[p].id
                    THEN [scans[i] EXCEPT !.routine = work[p].routine]
                    ELSE scans[i]]
    /\ LET routine_steps == work[p].routine[work[p].request.routine_type]
           completed_steps == Cardinality({i \in 1..Len(routine_steps) : routine_steps[i].completed})
       IN  resp' = [endpoint |-> "complete_step", user |-> cur[p].id, status |-> 200,
                    body |-> [success      |-> TRUE,
                              routine_type |-> work[p].request.routine_type,
                              step_order   |-> work[p].request.step_order,
                              completed    |-> work[p].request.completed,
                              progress    |-> [completed_steps |-> completed_steps,
                                               total_steps     |-> Len(routine_steps)],
                              next_step_unlocked |->
                                  work[p].request.completed
                                      /\ work[p].step_index + 1 <= Len(routine_steps),
                              routine     |-> routine_steps]]
    /\ pc' = [pc EXCEPT ![p] = "idle"]
    /\ cur' = [cur EXCEPT ![p] = Idle]
    /\ work' = [work EXCEPT ![p] = Idle]
    /\ UNCHANGED <<users, scan_cache, next_id, analyzed, made_free, fn_vars>>

\* One scan with a freshly generated routine is stored
InitRoutine ==
    /\ \E routine \in {validate_routine_response(r) : r \in RawRoutines} :
           scans = <<RoutineScan("u1", routine)>>
    /\ users = [u \in Users |-> [plan |-> "free", scan_count |-> 1]]
    /\ scan_cache = [img \in Images |-> NoEntry]
    /\ next_id = 2
    /\ pc = [p \in Procs |-> "idle"]
    /\ cur = [p \in Procs |-> Idle]
    /\ work = [p \in Procs |-> Idle]
    /\ resp = NoResponse
    /\ analyzed = [u \in Users |-> 1]
    /\ made_free = {1}
    /\ sc_in = [issues |-> <<>>, metrics |-> NoMetrics]
    /\ sc_out = NoResult
    /\ va_in = Unparseable
    /\ va_out = NoOutput
    /\ di_in = NoDietInput
    /\ di_out = NoOutput

NextRoutine ==
    \/ \E p \in Procs, u \in Users, request \in Requests : CompleteStepFind(p, u, request)
    \/ \E p \in Procs : CompleteStepUpdate(p)
    \/ \E u \in Users, plan \in {"premium", "pro"} : UpgradeSubscription(u, plan)
    \/ \E u \in Users, scan_id \in 1..MaxScans : DeleteScan(u, scan_id)

SpecRoutine == InitRoutine /\ [][NextRoutine]_vars

(***************************************************************************)
(* Properties of POST /routine/complete-step (under SpecRoutine).          *)
(***************************************************************************)
\* The routine lists of the stored scans
StoredLists == {scans[i].routine[t] : i \in 1..Len(scans), t \in RoutineTypes}

\* A step is completed only if every earlier step of its list is completed
CompletedInOrder ==
    \A steps \in StoredLists :
        \A i \in 1..Len(steps) : steps[i].completed => \A j \in 1..(i - 1) : steps[j].completed

\* A request goes on to the database update only if its step is not locked
\* in the scan it read, and a request answered 400 stores nothing and leaves
\* nothing to be stored
LockedStepRejected ==
    /\ \A p \in Procs :
           (pc[p] = "idle" /\ pc'[p] = "set_routine") =>
               \A i \in FindScan(work'[p].request.scan_id, cur'[p].id) :
                   ~scans[i].routine[work'[p].request.routine_type][work'[p].step_index].locked
    /\ (resp' # resp /\ resp'.endpoint = "complete_step" /\ resp'.status = 400) =>
           UNCHANGED <<scans, pc, work>>

\* An un-completing request that is carried out leaves every later step of
\* its list locked and not completed
UncompleteRelocksLater ==
    \A p \in Procs :
        (CompleteStepUpdate(p) /\ ~work[p].request.completed) =>
            \A i \in 1..Len(scans') :
                (scans'[i].id = work[p].request.scan_id) =>
                    LET steps == scans'[i].routine[work[p].request.routine_type]
                    IN  /\ ~steps[work[p].step_index].completed
                        /\ \A k \in (work[p].step_index + 1)..Len(steps) :
                               steps[k].locked /\ ~steps[k].completed

\* C26: sequential locking: in every stored routine list a step is completed
\* only if every earlier step is; a request on a locked step gets 400 and
\* changes nothing; un-completing a step re-locks and un-completes every
\* later step.
C26_SequentialLocking ==
    /\ []CompletedInOrder
    /\ [][LockedStepRejected /\ UncompleteRelocksLater]_vars

\* C26 witness: the first two steps of a three-step list are completed and
\* the third is unlocked, while a request to un-complete the first step,
\* read from the database before, is about to be written.
C26_Witness ==
    \E i \in 1..Len(scans), p \in Procs :
        LET steps == scans[i].routine.morning_routine
        IN  /\ Len(steps) = 3
            /\ steps[1].completed /\ steps[2].completed
            /\ ~steps[3].locked
            /\ pc[p] = "set_routine"
            /\ work[p].request.routine_type = "morning_routine"
            /\ work[p].request.step_order = 1
            /\ ~work[p].request.completed


(***************************************************************************)
(* GET /scan/history and GET /scan/compare/{id1}/{id2}.  Neither handler   *)
(* writes to the database, so each is one action.                          *)
(***************************************************************************)
\* A report with the single issue Acne of the given severity
RawAcne(severity) ==
    [skin_type |-> JStr(<<"o", "i", "l", "y">>),
     issues    |-> JList(<< JDict([name |-> JStr(<<"A", "c", "n", "e">>), severity |-> JNum(100 * severity),
                                   confidence |-> JNum(90), priority |-> JStr("primary"),
                                   description |-> JStr("Active breakouts on the chin")]) >>)]

HistoryReports == {RawAcne(4), RawAcne(6), RawClear}

\* The scan record analyze_skin stores for a report (lines 1846-1876)
StoredScan(scan_id, u, result) ==
    LET analysis == analyze_skin_with_ai(result)
    IN  [id           |-> scan_id,
         user_id      |-> u,
         image_base64 |-> "img1",
         image_hash   |-> "img1",
         analysis     |-> analysis,
         score_data   |-> calculate_deterministic_score(analysis.issues, analysis.skin_metrics),
         routine      |-> [morning_routine |-> ShortRoutine.morning_routine,
                           evening_routine |-> ShortRoutine.evening_routine,
                           weekly_routine  |-> ShortRoutine.weekly_routine],
         products     |-> ShortRoutine.products,
         diet_recommendations |->
             CHOOSE d \in generate_diet_recommendations(analysis.skin_type, analysis.issues) : TRUE,
         created_at   |-> "utcnow"]

\* The user's scans, newest first: find({'user_id': ...}).sort('created_at', -1)
\* (lines 1987-1989; scans holds the records in the order of their creation)
UserScansNewestFirst(u) ==
    LET mine == SelectSeq(scans, LAMBDA sc : sc.user_id = u)
    IN  [i \in 1..Len(mine) |-> mine[Len(mine) + 1 - i]]

\* {**analysis, 'overall_score': overall_score} (lines 1997-2003); the stored
\* analysis has no overall_score of its own, so it is score_data's score
AnalysisWithScore(analysis, score_data) ==
    [k \in DOMAIN analysis \cup {"overall_score"} |->
        IF k = "overall_score" THEN score_data.score ELSE analysis[k]]

\* One entry of the history (lines 2005-2012)
HistoryEntry(scan) ==
    [id           |-> scan.id,
     analysis     |-> AnalysisWithScore(scan.analysis, scan.score_data),
     score_data   |-> scan.score_data,
     created_at   |-> scan.created_at,
     image_base64 |-> scan.image_base64,
     image_hash   |-> scan.image_hash]

\* GET /scan/history (lines 1984-2014): the plan of the user is not read
GetScanHistory(u) ==
    /\ resp' = [endpoint |-> "history", user |-> u, status |-> 200,
                body |-> LET mine == UserScansNewestFirst(u)
                         IN  [i \in 1..Len(mine) |-> HistoryEntry(mine[i])]]
    /\ UNCHANGED <<users, scans, scan_cache, next_id, pc, cur, work, analyzed, made_free, fn_vars>>

\* {i['name'].lower(): i['severity'] for i in issues} (lines 2316-2317): a
\* later issue of the same lowered name replaces an earlier one
SeverityByName(issues) ==
    [n \in {Lower(issues[i].name) : i \in 1..Len(issues)} |->
        issues[CHOOSE i \in 1..Len(issues) :
                   /\ Lower(issues[i].name) = n
                   /\ \A j \in (i + 1)..Len(issues) : Lower(issues[j].name) # n].severity]

\* d.get(k, 0)
GetOrZero(d, k) == IF k \in DOMAIN d THEN d[k] ELSE 0

\* The names the loop of lines 2322-2333 appends an entry for
ChangedIssues(issues1, issues2) ==
    {n \in DOMAIN issues1 \cup DOMAIN issues2 : GetOrZero(issues1, n) # GetOrZero(issues2, n)}

\* One entry of issue_changes (lines 2326-2333)
IssueChange(issues1, issues2, issue) ==
    [issue        |-> issue,
     old_severity |-> GetOrZero(issues1, issue),
     new_severity |-> GetOrZero(issues2, issue),
     change       |-> GetOrZero(issues2, issue) - GetOrZero(issues1, issue),
     improved     |-> GetOrZero(issues2, issue) - GetOrZero(issues1, issue) < 0]

\* The responses of compare_scans (lines 2313-2349): all_issues is a set of
\* strings, iterated in an order that differs from process to process
CompareResponses(scan1, scan2) ==
    LET issues1 == SeverityByName(scan1.analysis.issues)
        issues2 == SeverityByName(scan2.analysis.issues)
    IN  {[scan1          |-> [id |-> scan1.id, date |-> scan1.created_at,
                              score |-> scan1.score_data.score],
          scan2          |-> [id |-> scan2.id, date |-> scan2.created_at,
                              score |-> scan2.score_data.score],
          score_change   |-> scan2.score_data.score - scan1.score_data.score,
          score_improved |-> scan2.score_data.score > scan1.score_data.score,
          issue_changes  |-> [i \in 1..Len(order) |-> IssueChange(issues1, issues2, order[i])]] :
         order \in Orders(ChangedIssues(issues1, issues2))}

\* GET /scan/compare/{scan_id_1}/{scan_id_2} (lines 2304-2349): the plan of
\* the user is not read
CompareScans(u, scan_id_1, scan_id_2) ==
    /\ IF FindScan(scan_id_1, u) = {} \/ FindScan(scan_id_2, u) = {}
       THEN resp' = [endpoint |-> "compare", user |-> u, status |-> 404]
       ELSE \E body \in CompareResponses(scans[SetMin(FindScan(scan_id_1, u))],
                                         scans[SetMin(FindScan(scan_id_2, u))]) :
                resp' = [endpoint |-> "compare", user |-> u, status |-> 200, body |-> body]
    /\ UNCHANGED <<users, scans, scan_cache, next_id, pc, cur, work, analyzed, made_free, fn_vars>>

\* The sequences of stored scans of user u with ids 1..n
ScanLists(u, n) ==
    {[i \in 1..n |-> StoredScan(i, u, results[i])] : results \in [1..n -> HistoryReports]}

\* A free user with up to MaxScans stored scans (more than FREE_SCAN_LIMIT
\* when concurrent analyses passed the limit check together)
InitHistory ==
    /\ \E n \in 0..MaxScans :
           /\ scans \in ScanLists("u1", n)
           /\ next_id = n + 1
           /\ analyzed = [u \in Users |-> n]
           /\ made_free = 1..n
           /\ users = [u \in Users |-> [plan |-> "free", scan_count |-> Min2(n, 1)]]
    /\ scan_cache = [img \in Images |-> NoEntry]
    /\ pc = [p \in Procs |-> "idle"]
    /\ cur = [p \in Procs |-> Idle]
    /\ work = [p \in Procs |-> Idle]
    /\ resp = NoResponse
    /\ sc_in = [issues |-> <<>>, metrics |-> NoMetrics]
    /\ sc_out = NoResult
    /\ va_in = Unparseable
    /\ va_out = NoOutput
    /\ di_in = NoDietInput
    /\ di_out = NoOutput

NextHistory ==
    \/ \E u \in Users : GetScanHistory(u)
    \/ \E u \in Users, scan_id_1 \in 1..MaxScans, scan_id_2 \in 1..MaxScans :
           CompareScans(u, scan_id_1, scan_id_2)
    \/ \E u \in Users, scan_id \in 1..MaxScans : GetScanDetail(u, scan_id)
    \/ \E u \in Users, scan_id \in 1..MaxScans : DeleteScan(u, scan_id)
    \/ \E u \in Users, plan \in {"premium", "pro"} : UpgradeSubscription(u, plan)

SpecHistory == InitHistory /\ [][NextHistory]_vars

(***************************************************************************)
(* Properties of the scan views of a free user (under SpecHistory).        *)
(***************************************************************************)
\* The last response gave scan data to a user on the free plan
FreeScanData ==
    /\ resp.endpoint \in {"analyze", "detail", "history", "compare"}
    /\ resp.status = 200
    /\ users[resp.user].plan = "free"

\* An analysis as sent carries no skin_metrics, and no severity or
\* description of any issue
WithholdsDetails(analysis) ==
    /\ "skin_metrics" \notin DOMAIN analysis
    /\ \A k \in {"issues", "issues_preview"} \cap DOMAIN analysis :
           \A i \in 1..Len(analysis[k]) :
               {"severity", "description"} \cap DOMAIN analysis[k][i] = {}

\* C28 (as claimed): whatever endpoint gives scan data to a user on the free
\* plan, the response carries no issue severity, no issue description and no
\* skin_metrics.
C28_FreeViewsWithholdDetails ==
    FreeScanData =>
        CASE resp.endpoint = "history" ->
                 \A i \in 1..Len(resp.body) : WithholdsDetails(resp.body[i].analysis)
          [] resp.endpoint = "compare" ->
                 \A i \in 1..Len(resp.body.issue_changes) :
                     {"old_severity", "new_severity"} \cap DOMAIN resp.body.issue_changes[i] = {}
          [] OTHER -> WithholdsDetails(resp.body.analysis)

\* What GET /scan/{id} gives a free user does carry none of them
DetailWithholdsDetails ==
    (FreeScanData /\ resp.endpoint = "detail") => WithholdsDetails(resp.body.analysis)

\* What GET /scan/history gives a free user carries none of them
HistoryWithholdsDetails ==
    (FreeScanData /\ resp.endpoint = "history") =>
        \A i \in 1..Len(resp.body) : WithholdsDetails(resp.body[i].analysis)

\* What GET /scan/compare gives a free user carries no severity
CompareWithholdsSeverities ==
    (FreeScanData /\ resp.endpoint = "compare") => resp.body.issue_changes = <<>>

=============================================================================
